---- MODULE Spec2Model ----
(***************************************************************************)
(* videoclipper: the job registry of api.py (start_processing, get_job,    *)
(* cleanup, the _run_job worker thread) and the clip pipeline of main.py   *)
(* (process_video) with the render stages of video_processor.py.           *)
(*                                                                         *)
(* One worker thread exists per accepted job.  A thread takes one step of  *)
(* process_video or of _run_job at a time; request handlers are atomic     *)
(* (they are coroutines without an await on one event loop).               *)
(***************************************************************************)
EXTENDS Integers, Sequences, FiniteSets, TLC

\* ---------------------------------------------------------------- bounds
\* accepted submissions in one behaviour
MaxSubmits == 2
\* /cleanup requests in one behaviour
MaxCleanups == 1
\* pipeline runs followed past the cut
StageRuns == 1
\* boundaries the clip-selection service may return (before slicing)
MaxReturned == 2
\* largest clip_number the selection service may put on a boundary
MaxClipNumber == 2
\* word timings handed to one generate_ass_subtitles call
MaxWords == 2
\* word start and end times lie on the grid 0, TimeStep, .., MaxTick * TimeStep
MaxTick == 3
TimeStep == 55
\* characters of a narration text
MaxChars == 5
\* calls of one library function followed in one behaviour
MaxCalls == 2
\* characters of a timestamp text
MaxTsChars == 8
\* words of a plain caption text
MaxSrtWords == 6
\* transcript word times lie on the grid 0, 500, .., MaxHalfSeconds * 500 ms
MaxHalfSeconds == 4
\* longest clip duration, in seconds, the duration probe reports
MaxProbed == 7
\* files in the staging directory when cleanup_temp_files lists it
MaxStaged == 3
\* monitored channels (CHANNEL_IDS is read from the environment)
MaxChannels == 2

\* ------------------------------------------------------ program constants
\* api.py:194  "if len(jobs) > 20"
MaxJobs == 20
\* config.py:27
NUM_CLIPS == 1
\* main.py:55  "5 initial steps + 3 per clip"
InitialSteps == 5
StepsPerClip == 3
\* video_processor.py:215  "voiceover_delay_ms=2000"
voiceover_delay_ms == 2000
\* video_processor.py:180  "if end_ms - start_ms < 150"
MinDisplayMs == 150
\* voiceover.py:49  "max(150, len(word) * 60)"
MinWordMs == 150
MsPerChar == 60
\* voiceover.py:55  "current_ms += duration + 50"
WordGapMs == 50
\* config.py:29
CLIP_MAX_SECONDS == 60
\* video_processor.py:255  "words[i:i+5] for i in range(0, len(words), 5)"
ChunkWords == 5
\* video_processor.py:258-259  "start_s = i * 4", "end_s = (i + 1) * 4"
ChunkSeconds == 4
\* main.py:33  "w_end <= end_sec + 0.5", in milliseconds
ClipEndSlackMs == 500
\* video_processor.py:70  "duration = 60.0  # Fallback if probe fails"
ProbeFallbackSeconds == 60
\* video_processor.py:74  "max(0, duration - 5)"
MusicFadeSeconds == 5
\* downloader.py:110  "save_processed(processed[-500:])"
ProcessedCap == 500

VARIABLES
    jobs,        \* api.jobs: the dict, as the sequence of its records in insertion order
    nextId,      \* the next fresh job id (uuid4 prefix)
    threads,     \* live worker threads: job id -> frame of _run_job/process_video
    downloads,   \* files in DOWNLOADS_DIR
    clipsDir,    \* files in CLIPS_DIR (staging)
    outputDir,   \* files in OUTPUT_DIR
    vp_globals,  \* names bound in the namespace of module video_processor
    call,        \* the library call under examination: function, arguments, result
    groq_client, \* gemini_ai.groq_client: "Groq", or "None" without GROQ_API_KEY
    cleanups,    \* /cleanup requests served so far
    resp,        \* the last HTTP response: the endpoint, the status code, the url sent
    evicted      \* the record deleted by the last capacity eviction, or NoRecord

vars == <<jobs, nextId, threads, downloads, clipsDir, outputDir, vp_globals,
          groq_client, call,
          cleanups, resp, evicted>>

\* ---------------------------------------------------------------- values
NoRecord == [id |-> 0, status |-> "none", progress |-> 0, current_step |-> "none",
             clips |-> <<>>, error |-> "None"]

\* NewRecord storing the job as queued instead of processing
NewRecordQueued(id) == [id |-> id, status |-> "queued", progress |-> 0,
                        current_step |-> "Starting...", clips |-> <<>>, error |-> "None"]

\* api.py:198-204, the record start_processing stores
NewRecord(id) == [id |-> id, status |-> "processing", progress |-> 0,
                  current_step |-> "Starting...", clips |-> <<>>, error |-> "None"]

\* the record of an earlier job whose download failed (main.py:66 raised)
FailedRecord(id) == [id |-> id, status |-> "failed", progress |-> 0,
                     current_step |-> "Downloading video...", clips |-> <<>>,
                     error |-> "yt-dlp failed"]

\* request bodies: the url field of ProcessRequest
Urls == {"", "ftp://v", "http://v"}

\* api.py:180  "not req.url or not req.url.strip()"
UrlIsBlank(u) == u \in {""}

\* api.py:183  req.url.startswith("http")
UrlStartsWithHttp(u) == u \in {"http://v"}

\* names that src/video_processor.py binds at module level or in cut_clip
VideoProcessorNames ==
    {"subprocess", "Path", "List", "CLIPS_DIR", "OUTPUT_DIR", "VIDEO_CODEC",
     "VIDEO_CRF", "VIDEO_PRESET", "AUDIO_BITRATE", "ORIGINAL_AUDIO_VOLUME",
     "MUSIC_VOLUME", "cut_clip", "mix_voiceover", "ms_to_ass_time",
     "generate_ass_subtitles", "add_subtitles", "cleanup_temp_files",
     "video_path", "start_seconds", "end_seconds", "clip_index",
     "output_path", "duration"}

\* No library call is under examination while the service runs.
NoCall == [fn |-> "none", args |-> <<>>, rets |-> <<>>]

\* the sequences over S of length at most n
Seqs(S, n) == UNION {[1..k -> S] : k \in 0..n}

\* --------------------------------------------------------- the jobs dict
Ids(js) == {js[i].id : i \in 1..Len(js)}

Index(js, id) == CHOOSE i \in 1..Len(js) : js[i].id = id

Get(js, id) == js[Index(js, id)]

\* jobs[job_id] = {...}: a new key is appended, an existing key keeps its place
DictSet(js, id, rec) ==
    IF id \in Ids(js) THEN [js EXCEPT ![Index(js, id)] = rec] ELSE Append(js, rec)

\* Running with the status literal misspelt: no record ever matches
RunningWrongStatus(js) == {i \in 1..Len(js) : js[i].status = "running"}

\* api.py:187  running = [j for j in jobs.values() if j["status"] == "processing"]
Running(js) == {i \in 1..Len(js) : js[i].status = "processing"}

\* api.py:191  job_id = str(uuid.uuid4())[:8]
NewJobId(n) == n

\* StoreJob with the record stored first and the newest record deleted when the
\* registry is over capacity
StoreJobEvictNewest(js, rec) ==
    LET all == DictSet(js, rec.id, rec)
        over == Len(all) > MaxJobs
    IN [jobs |-> IF over THEN SubSeq(all, 1, Len(all) - 1) ELSE all,
        evicted |-> IF over THEN all[Len(all)] ELSE NoRecord]

\* api.py:193-204: delete the oldest record if more than MaxJobs are stored,
\* then store the new record.  The result carries the deleted record.
StoreJob(js, rec) ==
    LET over == Len(js) > MaxJobs
        kept == IF over THEN Tail(js) ELSE js
    IN [jobs |-> DictSet(kept, rec.id, rec),
        evicted |-> IF over THEN Head(js) ELSE NoRecord]

\* ---------------------------------------------------------------- files
\* a file: its name (kind and clip index), the run that wrote it (0 for the
\* shared source files of DOWNLOADS_DIR), and the captions burnt into it
File(kind, n, by, cap) == [kind |-> kind, n |-> n, by |-> by, cap |-> cap]

\* writing a path replaces the file of that name
WriteFile(dir, f) == {g \in dir : ~(g.kind = f.kind /\ g.n = f.n)} \cup {f}

Exists(dir, kind, n) == \E g \in dir : g.kind = kind /\ g.n = n

Mp4s(dir) == {g \in dir : g.kind \in {"video", "clip", "final_clip"}}

\* ------------------------------------------------------- thread frames
\* total_steps counting two steps per clip where the loop reports three
total_steps_two_per_clip == InitialSteps + (NUM_CLIPS * 2)

\* main.py:55
total_steps == InitialSteps + (NUM_CLIPS * StepsPerClip)

\* main.py:61  int((current_step / total_steps) * 100)
Percent(step) == (step * 100) \div total_steps

\* the frame of process_video in a fresh worker thread: the step counter, the
\* music track, whether word timings exist, the boundaries left to process, and
\* for the clip in hand: whether it has word timings (cw), the caption tiers
\* attempted so far, the artifact add_subtitles returned; then the final files
NewFrame == [pc |-> "start", current_step |-> 0, music |-> FALSE, words |-> FALSE,
             clips |-> <<>>, cw |-> FALSE, tried |-> <<>>, result |-> "none",
             files |-> <<>>, exc |-> "None"]

\* process_video is still executing in this frame
Active(fr) == fr.pc \notin {"c_status", "c_progress", "c_step", "c_clips",
                            "f_status", "f_error"}


\* main.py:42-47 and api.py:42-45: update_progress calls progress_callback,
\* which assigns two fields of jobs[job_id]
progress_callback(js, id, percent, step) ==
    DictSet(js, id, [Get(js, id) EXCEPT !.progress = percent, !.current_step = step])

\* an exception leaves process_video and reaches the handler of _run_job (api.py:64)
Raised(fr, e) == [NewFrame EXCEPT !.pc = "f_status", !.exc = e]

\* the thread's frame is replaced / the thread ends
SetFrame(t, fr) == threads' = [threads EXCEPT ![t] = fr]

EndThread(t) == threads' = [u \in DOMAIN threads \ {t} |-> threads[u]]

\* step_progress reporting the percentage without counting the step
step_progress_uncounted(t, fr, label) ==
    IF t \in Ids(jobs)
    THEN /\ jobs' = progress_callback(jobs, t, Percent(fr.current_step), label)
         /\ SetFrame(t, fr)
    ELSE /\ jobs' = jobs
         /\ SetFrame(t, Raised(fr, "KeyError"))

\* main.py:58-62 step_progress: count the step, report the percentage.  The
\* callback raises KeyError when the record is no longer in the registry.
step_progress(t, fr, label) ==
    LET n == fr.current_step + 1
        counted == [fr EXCEPT !.current_step = n]
    IN IF t \in Ids(jobs)
       THEN /\ jobs' = progress_callback(jobs, t, Percent(n), label)
            /\ SetFrame(t, counted)
       ELSE /\ jobs' = jobs
            /\ SetFrame(t, Raised(counted, "KeyError"))

\* a step of a worker thread leaves the request layer alone
Worker(t) == UNCHANGED <<nextId, vp_globals, groq_client, call, cleanups, resp, evicted>>

\* ------------------------------------------------------------- requests
Response(op, code, url) == [op |-> op, code |-> code, url |-> url]

\* accepted submissions a behaviour may hold: fewer when the runs pass the cut
Budget == IF "fade_out" \in vp_globals THEN StageRuns ELSE MaxSubmits

\* api.py:176-209  POST /process-video
start_processing(u) ==
    /\ UNCHANGED <<downloads, clipsDir, outputDir, vp_globals, groq_client, call, cleanups>>
    /\ IF UrlIsBlank(u) \/ ~UrlStartsWithHttp(u)
       THEN /\ resp' = Response("submit", 400, u)
            /\ UNCHANGED <<jobs, nextId, threads, evicted>>
       ELSE IF Running(jobs) # {}
       THEN /\ resp' = Response("submit", 409, u)
            /\ UNCHANGED <<jobs, nextId, threads, evicted>>
       ELSE /\ nextId <= Budget
            /\ LET id == NewJobId(nextId)
                   st == StoreJob(jobs, NewRecord(id))
               IN /\ jobs' = st.jobs
                  /\ evicted' = st.evicted
                  /\ threads' = [x \in DOMAIN threads \cup {id} |->
                                    IF x = id THEN NewFrame ELSE threads[x]]
                  /\ resp' = Response("submit", 200, u)
            /\ nextId' = nextId + 1

\* get_job leaving a mark on the record it returns
get_job_marking(id) ==
    /\ resp' = IF id \in Ids(jobs) THEN Response("poll", 200, "")
                                   ELSE Response("poll", 404, "")
    /\ jobs' = IF id \in Ids(jobs)
               THEN DictSet(jobs, id, [Get(jobs, id) EXCEPT !.current_step = "polled"])
               ELSE jobs
    /\ UNCHANGED <<nextId, threads, downloads, clipsDir, outputDir,
                   vp_globals, groq_client, call, cleanups, evicted>>

\* api.py:212-217  GET /job/{job_id}
get_job(id) ==
    /\ resp' = IF id \in Ids(jobs) THEN Response("poll", 200, "")
                                   ELSE Response("poll", 404, "")
    /\ UNCHANGED <<jobs, nextId, threads, downloads, clipsDir, outputDir,
                   vp_globals, groq_client, call, cleanups, evicted>>

\* api.py:238-249  POST /cleanup
cleanup ==
    /\ cleanups < MaxCleanups
    /\ cleanups' = cleanups + 1
    /\ outputDir' = outputDir \ Mp4s(outputDir)
    /\ jobs' = <<>>
    /\ resp' = Response("cleanup", 200, "")
    /\ UNCHANGED <<nextId, threads, downloads, clipsDir, vp_globals, groq_client, call,
                   evicted>>

\* ------------------------------------------------ process_video, main.py
\* main.py:65  update_progress(0, "Downloading video...")
Start(t) ==
    /\ threads[t].pc = "start"
    /\ Worker(t)
    /\ IF t \in Ids(jobs)
       THEN /\ jobs' = progress_callback(jobs, t, 0, "Downloading video...")
            /\ SetFrame(t, [threads[t] EXCEPT !.pc = "download"])
       ELSE /\ jobs' = jobs
            /\ SetFrame(t, Raised(threads[t], "KeyError"))
    /\ UNCHANGED <<downloads, clipsDir, outputDir>>

\* main.py:66-67 and downloader.py:113-144  download_video
Download(t) ==
    /\ threads[t].pc = "download"
    /\ Worker(t)
    /\ UNCHANGED <<clipsDir, outputDir>>
    /\ \E ok \in BOOLEAN :
         IF ok
         THEN /\ downloads' = WriteFile(downloads \ Mp4s(downloads),
                                        File("video", 0, 0, "none"))
              /\ step_progress(t, [threads[t] EXCEPT !.pc = "music"], "Downloaded")
         ELSE /\ downloads' = downloads \ Mp4s(downloads)
              /\ jobs' = jobs
              /\ SetFrame(t, Raised(threads[t], "yt-dlp failed"))

\* Music where a failed fetch leaves process_video
MusicRequired(t) ==
    /\ threads[t].pc = "music"
    /\ Worker(t)
    /\ UNCHANGED <<downloads, clipsDir, outputDir>>
    /\ \E ok \in BOOLEAN :
         IF ok
         THEN step_progress(t, [threads[t] EXCEPT !.pc = "extract", !.music = TRUE],
                            "Music")
         ELSE /\ jobs' = jobs
              /\ SetFrame(t, Raised(threads[t], "yt-dlp playlist fetch failed"))

\* main.py:69-75  music is optional: either branch reports one step
Music(t) ==
    /\ threads[t].pc = "music"
    /\ Worker(t)
    /\ UNCHANGED <<downloads, clipsDir, outputDir>>
    /\ \E ok \in BOOLEAN :
         step_progress(t, [threads[t] EXCEPT !.pc = "extract", !.music = ok],
                       "Music")

\* main.py:78-79 and downloader.py:197-210  extract_audio
Extract(t) ==
    /\ threads[t].pc = "extract"
    /\ Worker(t)
    /\ UNCHANGED <<clipsDir, outputDir>>
    /\ \E ok \in BOOLEAN :
         IF ok
         THEN /\ downloads' = WriteFile(downloads, File("audio", 0, 0, "none"))
              /\ step_progress(t, [threads[t] EXCEPT !.pc = "transcribe"], "Audio extracted")
         ELSE /\ downloads' = downloads
              /\ jobs' = jobs
              /\ SetFrame(t, Raised(threads[t], "ffmpeg extract failed"))

\* gemini_ai.py:43-94  transcribe_audio: without a client it raises before it
\* calls the service; with one, the service gives word timings, or none, or fails
transcribe_audio(client) ==
    IF client = "None" THEN {"GROQ_API_KEY required for transcription (Whisper)."}
    ELSE {"words", "nowords", "transcription failed"}

\* main.py:82-90  transcribe_audio, one step, then the transcript file.
\* A KeyError of the callback leaves before the transcript is written.
Transcribe(t) ==
    /\ threads[t].pc = "transcribe"
    /\ Worker(t)
    /\ UNCHANGED <<clipsDir, outputDir>>
    /\ \E out \in transcribe_audio(groq_client) :
         IF out \notin {"words", "nowords"}
         THEN /\ downloads' = downloads
              /\ jobs' = jobs
              /\ SetFrame(t, Raised(threads[t], out))
         ELSE /\ downloads' = IF t \in Ids(jobs)
                              THEN WriteFile(downloads, File("transcript", 0, 0, "none"))
                              ELSE downloads
              /\ step_progress(t, [threads[t] EXCEPT !.pc = "select",
                                                     !.words = (out = "words")],
                               "Transcribed")

\* boundary lists the selection service may return: their clip_number fields
RECURSIVE Lists(_)
Lists(n) == IF n = 0 THEN {<<>>}
            ELSE Lists(n - 1) \cup
                 {Append(l, c) : l \in {m \in Lists(n - 1) : Len(m) = n - 1},
                                 c \in 1..MaxClipNumber}

\* gemini_ai.py:141-191: the value of clips_list after the reply was parsed.  A
\* failed call, an unparseable reply or a reply of no known shape gives the
\* empty list; a JSON array, or the "clips"/"segments" member of an object, is
\* taken as it is, whatever its type: here a list of boundaries or a non-empty
\* object
ClipsLists ==
    {[type |-> "list", items |-> l] : l \in Lists(MaxReturned)}
        \cup {[type |-> "dict", items |-> <<>>]}

\* gemini_ai.py:193-205: one fallback boundary (clip_number 1) when clips_list
\* is falsy, then clips_list[:NUM_CLIPS], which raises TypeError on a dict
select_best_clips(clips_list) ==
    LET n == Len(clips_list.items)
    IN IF clips_list.type = "dict"
       THEN [raised |-> "unhashable type: 'slice'", clips |-> <<>>]
       ELSE [raised |-> "None",
             clips |-> IF n = 0 THEN <<1>>
                       ELSE SubSeq(clips_list.items, 1,
                                   IF n < NUM_CLIPS THEN n ELSE NUM_CLIPS)]

\* main.py:93-94
Select(t) ==
    /\ threads[t].pc = "select"
    /\ Worker(t)
    /\ UNCHANGED <<downloads, clipsDir, outputDir>>
    /\ \E sel \in {select_best_clips(cl) : cl \in ClipsLists} :
         IF sel.raised # "None"
         THEN /\ jobs' = jobs
              /\ SetFrame(t, Raised(threads[t], sel.raised))
         ELSE step_progress(t, [threads[t] EXCEPT !.pc = "cut", !.clips = sel.clips],
                            "Found clips")

\* video_processor.py:16-54  cut_clip: the filter string of lines 24-33 is built
\* first and reads the name fade_out; then the engine runs and its exit code decides
cut_clip(names, rc) ==
    IF "fade_out" \notin names THEN "name 'fade_out' is not defined"
    ELSE IF rc # 0 THEN "ffmpeg cut failed"
    ELSE "ok"

\* Cut handing the raw cut straight to the caption stage, without the mix
CutSkipsMix(t) ==
    /\ threads[t].pc = "cut"
    /\ Worker(t)
    /\ UNCHANGED <<downloads, outputDir>>
    /\ clipsDir' = WriteFile(clipsDir, File("clip", Head(threads[t].clips), t, "none"))
    /\ step_progress(t, [threads[t] EXCEPT !.pc = "subs"], "Cut video")

\* main.py:103-110: the next boundary is cut; nothing in the loop catches a
\* failure of the cut
Cut(t) ==
    /\ threads[t].pc = "cut"
    /\ Worker(t)
    /\ UNCHANGED <<downloads, outputDir>>
    /\ \E rc \in {0, 1} :
         LET n == Head(threads[t].clips)
             r == cut_clip(vp_globals, rc)
         IN IF r = "ok"
            THEN /\ clipsDir' = WriteFile(clipsDir, File("clip", n, t, "none"))
                 /\ step_progress(t, [threads[t] EXCEPT !.pc = "mix"], "Cut video")
            ELSE /\ clipsDir' = clipsDir
                 /\ jobs' = jobs
                 /\ SetFrame(t, Raised(threads[t], r))

\* main.py:113-121.  mix_audio is imported from video_processor but src/ holds
\* no definition of it: a render stage as spec.md 4.5 describes one, which
\* writes a fresh artifact named by the clip index or fails with RenderFailure.
\* Then extract_clip_words picks the words of the clip.
Mix(t) ==
    /\ threads[t].pc = "mix"
    /\ Worker(t)
    /\ UNCHANGED <<downloads, outputDir, jobs>>
    /\ LET n == Head(threads[t].clips)
       IN \E ok \in BOOLEAN, cw \in BOOLEAN :
            IF ok /\ Exists(clipsDir, "clip", n)
            THEN /\ cw => threads[t].words
                 /\ clipsDir' = WriteFile(clipsDir, File("mixed", n, t, "none"))
                 /\ SetFrame(t, [threads[t] EXCEPT !.pc = "subs", !.cw = cw])
            ELSE /\ ~cw
                 /\ clipsDir' = clipsDir
                 /\ SetFrame(t, Raised(threads[t], "ffmpeg mix failed"))

\* Strategy 1 whose failure leaves add_subtitles without trying Strategy 2
Tier1SkipsTier2(t) ==
    /\ threads[t].pc = "subs"
    /\ threads[t].cw
    /\ Worker(t)
    /\ UNCHANGED <<downloads, jobs, clipsDir, outputDir>>
    /\ SetFrame(t, [threads[t] EXCEPT !.pc = "tier3",
                                      !.tried = Append(@, "tier1 failed")])

\* video_processor.py:210-237  add_subtitles, Strategy 1: only with word
\* timings; the .ass file is generated, then burnt; exit code 0 returns
\* output_path, anything else (an exception included) falls through
Tier1(t) ==
    /\ threads[t].pc = "subs"
    /\ threads[t].cw
    /\ Worker(t)
    /\ UNCHANGED <<downloads, jobs>>
    /\ LET n == Head(threads[t].clips)
       IN \E gen \in BOOLEAN, rc \in {0, 1} :
            LET burnt == gen /\ rc = 0 /\ Exists(clipsDir, "mixed", n)
            IN /\ clipsDir' = IF gen THEN WriteFile(clipsDir, File("sub_ass", n, t, "none"))
                                     ELSE clipsDir
               /\ outputDir' = IF burnt
                               THEN WriteFile(outputDir, File("final_clip", n, t, "words"))
                               ELSE outputDir
               /\ SetFrame(t, [threads[t] EXCEPT
                        !.pc = IF burnt THEN "finalize" ELSE "tier2",
                        !.result = IF burnt THEN "output" ELSE "none",
                        !.tried = Append(@, IF burnt THEN "tier1 ok" ELSE "tier1 failed")])

\* video_processor.py:239-292  Strategy 2: reached when Strategy 1 was skipped
\* or fell through; the .srt file is written, then burnt
Tier2(t) ==
    /\ \/ threads[t].pc = "tier2"
       \/ threads[t].pc = "subs" /\ ~threads[t].cw
    /\ Worker(t)
    /\ UNCHANGED <<downloads, jobs>>
    /\ LET n == Head(threads[t].clips)
       IN \E wr \in BOOLEAN, rc \in {0, 1} :
            LET burnt == wr /\ rc = 0 /\ Exists(clipsDir, "mixed", n)
            IN /\ clipsDir' = IF wr THEN WriteFile(clipsDir, File("sub_srt", n, t, "none"))
                                    ELSE clipsDir
               /\ outputDir' = IF burnt
                               THEN WriteFile(outputDir, File("final_clip", n, t, "text"))
                               ELSE outputDir
               /\ SetFrame(t, [threads[t] EXCEPT
                        !.pc = IF burnt THEN "finalize" ELSE "tier3",
                        !.result = IF burnt THEN "output" ELSE "none",
                        !.tried = Append(@, IF burnt THEN "tier2 ok" ELSE "tier2 failed")])

\* Strategy 3 raising instead of returning the input video
Tier3Raises(t) ==
    /\ threads[t].pc = "tier3"
    /\ Worker(t)
    /\ UNCHANGED <<downloads, clipsDir, outputDir, jobs>>
    /\ SetFrame(t, Raised(threads[t], "subtitles failed"))

\* video_processor.py:294-296  Strategy 3: return video_path, the mixed artifact
Tier3(t) ==
    /\ threads[t].pc = "tier3"
    /\ Worker(t)
    /\ UNCHANGED <<downloads, clipsDir, outputDir, jobs>>
    /\ SetFrame(t, [threads[t] EXCEPT !.pc = "finalize", !.result = "mixed",
                                      !.tried = Append(@, "tier3")])

\* Finalize recording the path add_subtitles returned, without the copy
FinalizeWithoutCopy(t) ==
    /\ threads[t].pc = "finalize"
    /\ Worker(t)
    /\ UNCHANGED <<downloads, clipsDir, outputDir>>
    /\ step_progress(t, [threads[t] EXCEPT
                            !.pc = "meta",
                            !.files = Append(@, [kind |-> IF threads[t].result = "output"
                                                          THEN "final_clip" ELSE "mixed",
                                                 n |-> Head(threads[t].clips)])],
                     "Subtitles burned")

\* main.py:126-136: an artifact outside OUTPUT_DIR is copied to clip_<n>.mp4; if
\* that copy raises, the handler copies the mixed artifact again; then the final
\* path is recorded and one step reported
Finalize(t) ==
    /\ threads[t].pc = "finalize"
    /\ Worker(t)
    /\ UNCHANGED <<downloads, clipsDir>>
    /\ LET n == Head(threads[t].clips)
           fr == threads[t]
       IN IF fr.result = "output"
          THEN /\ outputDir' = outputDir
               /\ step_progress(t, [fr EXCEPT !.pc = "meta",
                                              !.files = Append(@, [kind |-> "final_clip", n |-> n])],
                                "Subtitles burned")
          ELSE \E copy1 \in BOOLEAN, copy2 \in BOOLEAN :
                 IF (copy1 \/ copy2) /\ Exists(clipsDir, "mixed", n)
                 THEN /\ outputDir' = WriteFile(outputDir, File("clip", n, t, "none"))
                      /\ step_progress(t, [fr EXCEPT !.pc = "meta",
                                                     !.files = Append(@, [kind |-> "clip", n |-> n])],
                                       "Subtitles burned")
                 ELSE /\ outputDir' = outputDir
                      /\ jobs' = jobs
                      /\ SetFrame(t, Raised(fr, "copy failed"))

\* gemini_ai.py:226-262  generate_youtube_metadata returns json.loads of the
\* reply, whatever JSON value it is, or its defaults when the call or the
\* parsing raised
MetadataReplies == {"object", "defaults", "not an object"}

\* main.py:140-163: the call inside try/except, one step, then
\* clips_metadata.append reads yt_meta.get(...) outside the try, which raises
\* AttributeError when yt_meta is a list, a string, a number or None; then the
\* next boundary
Meta(t) ==
    /\ threads[t].pc = "meta"
    /\ Worker(t)
    /\ UNCHANGED <<downloads, clipsDir, outputDir>>
    /\ \E yt_meta \in MetadataReplies :
         LET rest == Tail(threads[t].clips)
         IN IF yt_meta = "not an object" /\ t \in Ids(jobs)
            THEN /\ jobs' = progress_callback(jobs, t,
                                Percent(threads[t].current_step + 1), "Generated metadata")
                 /\ SetFrame(t, Raised(threads[t], "object has no attribute 'get'"))
            ELSE step_progress(t, [threads[t] EXCEPT
                                     !.pc = IF rest = <<>> THEN "cleanup" ELSE "cut",
                                     !.clips = rest, !.cw = FALSE, !.tried = <<>>,
                                     !.result = "none"],
                               "Generated metadata")

\* the loop without its try/except: the first unlink that fails ends it
unlink_all_unguarded(listed, gone, stuck) ==
    IF listed \cap (gone \cup stuck) = {}
    THEN [dir |-> {}, swallowed |-> 0, raised |-> "None"]
    ELSE [dir |-> listed \ gone, swallowed |-> 0, raised |-> "OSError"]

\* video_processor.py:301-305  the loop of cleanup_temp_files over the files
\* glob listed: gone are those removed by someone else before their unlink
\* (FileNotFoundError), stuck those whose unlink fails and leaves them
\* (a directory, a permission); each exception is swallowed
unlink_all(listed, gone, stuck) ==
    [dir       |-> (listed \ gone) \cap stuck,
     swallowed |-> Cardinality(listed \cap (gone \cup stuck)),
     raised    |-> "None"]

\* video_processor.py:299-305  cleanup_temp_files in process_video, whose
\* staged files are regular files nobody else removes
cleanup_temp_files(dir) == unlink_all(dir, {}, {}).dir

\* main.py:165-182: the staging directory is emptied, the source video and
\* audio are unlinked, and process_video returns
EndRun(t) ==
    /\ threads[t].pc = "cleanup"
    /\ Worker(t)
    /\ UNCHANGED <<outputDir, jobs>>
    /\ clipsDir' = cleanup_temp_files(clipsDir)
    /\ downloads' = {f \in downloads : f.kind \notin {"video", "audio"}}
    /\ SetFrame(t, [threads[t] EXCEPT !.pc = "c_status"])

\* ------------------------------------------------------ _run_job, api.py
\* api.py:65  jobs[job_id]["status"] = "failed"; a KeyError here is not caught
\* and ends the thread
FailStatus(t) ==
    /\ threads[t].pc = "f_status"
    /\ Worker(t)
    /\ UNCHANGED <<downloads, clipsDir, outputDir>>
    /\ IF t \in Ids(jobs)
       THEN /\ jobs' = DictSet(jobs, t, [Get(jobs, t) EXCEPT !.status = "failed"])
            /\ SetFrame(t, [threads[t] EXCEPT !.pc = "f_error"])
       ELSE /\ jobs' = jobs
            /\ EndThread(t)

\* FailError storing a fixed message in place of str(e)
FailErrorGeneric(t) ==
    /\ threads[t].pc = "f_error"
    /\ Worker(t)
    /\ UNCHANGED <<downloads, clipsDir, outputDir>>
    /\ jobs' = IF t \in Ids(jobs)
               THEN DictSet(jobs, t, [Get(jobs, t) EXCEPT !.error = "Processing failed"])
               ELSE jobs
    /\ EndThread(t)

\* api.py:66  jobs[job_id]["error"] = str(e); then the thread returns
FailError(t) ==
    /\ threads[t].pc = "f_error"
    /\ Worker(t)
    /\ UNCHANGED <<downloads, clipsDir, outputDir>>
    /\ jobs' = IF t \in Ids(jobs)
               THEN DictSet(jobs, t, [Get(jobs, t) EXCEPT !.error = threads[t].exc])
               ELSE jobs
    /\ EndThread(t)

\* DoneWrite where an exception follows the assignment, so that the handler of
\* _run_job runs on a record already written
DoneWriteThenRaise(t, rec, next) ==
    /\ Worker(t)
    /\ UNCHANGED <<downloads, clipsDir, outputDir>>
    /\ t \in Ids(jobs)
    /\ jobs' = DictSet(jobs, t, rec)
    /\ SetFrame(t, Raised(threads[t], "TypeError"))

\* api.py:49-63: four assignments to the record after process_video returned,
\* inside the try of _run_job: a KeyError goes to the handler at api.py:64
DoneWrite(t, rec, next) ==
    /\ Worker(t)
    /\ UNCHANGED <<downloads, clipsDir, outputDir>>
    /\ IF t \in Ids(jobs)
       THEN /\ jobs' = DictSet(jobs, t, rec)
            /\ IF next = "end" THEN EndThread(t)
                               ELSE SetFrame(t, [threads[t] EXCEPT !.pc = next])
       ELSE /\ jobs' = jobs
            /\ SetFrame(t, Raised(threads[t], "KeyError"))

\* api.py:60
DoneStatus(t) ==
    /\ threads[t].pc = "c_status"
    /\ DoneWrite(t, [Get(jobs, t) EXCEPT !.status = "completed"], "c_progress")

\* api.py:61
DoneProgress(t) ==
    /\ threads[t].pc = "c_progress"
    /\ DoneWrite(t, [Get(jobs, t) EXCEPT !.progress = 100], "c_step")

\* api.py:62
DoneStep(t) ==
    /\ threads[t].pc = "c_step"
    /\ DoneWrite(t, [Get(jobs, t) EXCEPT !.current_step = "Done!"], "c_clips")

\* api.py:63
DoneClips(t) ==
    /\ threads[t].pc = "c_clips"
    /\ DoneWrite(t, [Get(jobs, t) EXCEPT !.clips = threads[t].files], "end")

\* -------------------------------------------- strings, as character lists
\* str.upper on one character
upper(c) == IF c = "h" THEN "H" ELSE IF c = "i" THEN "I" ELSE c

str_upper(w) == [i \in 1..Len(w) |-> upper(w[i])]

RECURSIVE lstrip(_)
lstrip(w) == IF Len(w) > 0 /\ Head(w) = " " THEN lstrip(Tail(w)) ELSE w

RECURSIVE rstrip(_)
rstrip(w) ==
    IF Len(w) > 0 /\ w[Len(w)] = " " THEN rstrip(SubSeq(w, 1, Len(w) - 1)) ELSE w

\* str.strip
strip(w) == rstrip(lstrip(w))

\* the length of the run of non-blank characters a text starts with
WordEnd(text) ==
    IF \E i \in 1..Len(text) : text[i] = " "
    THEN (CHOOSE i \in 1..Len(text) :
              /\ text[i] = " "
              /\ \A j \in 1..(i - 1) : text[j] # " ") - 1
    ELSE Len(text)

\* str.split without arguments: the maximal runs of non-blank characters
RECURSIVE split(_)
split(text) ==
    IF Len(text) = 0 THEN <<>>
    ELSE IF Head(text) = " " THEN split(Tail(text))
    ELSE <<SubSeq(text, 1, WordEnd(text))>>
             \o split(SubSeq(text, WordEnd(text) + 1, Len(text)))

\* ------------------------------- generate_ass_subtitles, video_processor.py
\* video_processor.py:123-132  an ASS timestamp H:MM:SS.cs, as its four fields
ms_to_ass_time(ms) ==
    LET hours        == ms \div 3600000
        ms1          == ms % 3600000
        minutes      == ms1 \div 60000
        ms2          == ms1 % 60000
        seconds      == ms2 \div 1000
        centiseconds == (ms2 % 1000) \div 10
    IN  [hours |-> hours, minutes |-> minutes, seconds |-> seconds,
         centiseconds |-> centiseconds]

\* the loop body with the minimum display time left out
DialogueUnclamped(timing, delay) ==
    [text       |-> str_upper(strip(timing.word)),
     start_ms   |-> timing.start_ms + delay,
     end_ms     |-> timing.end_ms + delay,
     start_time |-> ms_to_ass_time(timing.start_ms + delay),
     end_time   |-> ms_to_ass_time(timing.end_ms + delay)]

\* video_processor.py:171-186  the loop body for one word that is shown: the
\* locals start_ms and end_ms, and the times written on the Dialogue line
Dialogue(timing, delay) ==
    LET start_ms == timing.start_ms + delay
        end_ms0  == timing.end_ms + delay
        end_ms   == IF end_ms0 - start_ms < MinDisplayMs
                    THEN start_ms + MinDisplayMs ELSE end_ms0
    IN  [text       |-> str_upper(strip(timing.word)),
         start_ms   |-> start_ms,
         end_ms     |-> end_ms,
         start_time |-> ms_to_ass_time(start_ms),
         end_time   |-> ms_to_ass_time(end_ms)]

\* video_processor.py:170-173  the words the loop does not skip
Shown(word_timings) ==
    SelectSeq(word_timings, LAMBDA timing : Len(strip(timing.word)) > 0)

\* video_processor.py:135-194  the Dialogue lines of the file, in order
generate_ass_subtitles(word_timings, delay) ==
    [i \in 1..Len(Shown(word_timings)) |-> Dialogue(Shown(word_timings)[i], delay)]

\* the word timings a caller may pass: a word or a blank, start <= end
WordTexts == {<<"h", "i">>, <<" ">>}
WordTimes == {k * TimeStep : k \in 0..MaxTick}
WordTimings ==
    {timing \in [word : WordTexts, start_ms : WordTimes, end_ms : WordTimes] :
        timing.start_ms <= timing.end_ms}

Service == <<jobs, nextId, threads, downloads, clipsDir, outputDir, vp_globals,
             groq_client, cleanups, resp, evicted>>

\* video_processor.py:215  add_subtitles calls generate_ass_subtitles
CallGenerateAss ==
    /\ call.fn = "generate_ass_subtitles"
    /\ Len(call.rets) < MaxCalls
    /\ call' = [call EXCEPT !.rets =
                   Append(@, generate_ass_subtitles(call.args, voiceover_delay_ms))]
    /\ UNCHANGED Service

\* a path: the directory, and the file name as its prefix, the clip index
\* and its extension
Path(dir, prefix, n, ext) == [dir |-> dir, prefix |-> prefix, n |-> n, ext |-> ext]

\* video_processor.py:208-296  add_subtitles(video_path, text, clip_index,
\* word_timings), by whether word timings were passed and by the exit codes
\* of the two ffmpeg runs: the file each ffmpeg run was given to write, in
\* order, and the path returned.  Both strategies use the output_path of
\* line 208.
add_subtitles(video_path, clip_index, timed, rc1, rc2) ==
    LET output_path == Path("OUTPUT_DIR", "final_clip_", clip_index, ".mp4")
        strategy1   == [strategy |-> 1, path |-> output_path]
        strategy2   == [strategy |-> 2, path |-> output_path]
    IN  IF timed /\ rc1 = 0
        THEN [writes |-> <<strategy1>>, returned |-> output_path]
        ELSE [writes   |-> (IF timed THEN <<strategy1>> ELSE <<>>) \o <<strategy2>>,
              returned |-> IF rc2 = 0 THEN output_path ELSE video_path]

\* main.py:124  process_video burns the captions of one clip
CallAddSubtitles ==
    /\ call.fn = "add_subtitles"
    /\ Len(call.rets) = 0
    /\ call' = [call EXCEPT !.rets =
                   <<add_subtitles(Path("CLIPS_DIR", "mixed_", call.args.clip_index, ".mp4"),
                                   call.args.clip_index, call.args.timed,
                                   call.args.rc1, call.args.rc2)>>]
    /\ UNCHANGED Service

\* ------------------------------------------------------------ voiceover.py
\* voiceover.py:49 without the floor
word_duration_no_floor(word) == Len(word) * MsPerChar

\* voiceover.py:49
word_duration(word) ==
    IF Len(word) * MsPerChar > MinWordMs THEN Len(word) * MsPerChar ELSE MinWordMs

\* voiceover.py:47-56  the loop, from the cursor current_ms on
RECURSIVE estimate_from(_, _)
estimate_from(words, current_ms) ==
    IF Len(words) = 0 THEN <<>>
    ELSE <<[word     |-> Head(words),
            start_ms |-> current_ms,
            end_ms   |-> current_ms + word_duration(Head(words))]>>
         \o estimate_from(Tail(words),
                          current_ms + word_duration(Head(words)) + WordGapMs)

\* voiceover.py:43-56  _estimate_word_timings
estimate_word_timings(text) == estimate_from(split(text), 0)

\* voiceover.py:8-40  what one run of _generate_tts_with_timing under
\* asyncio.run ends with: word boundaries, none, or an exception
TtsTimings == <<[word |-> <<"a">>, start_ms |-> 100, end_ms |-> 400]>>
FirstOutcomes == {"timings", "empty", "NoAudioReceived", "RuntimeError"}
RetryOutcomes == {"timings", "empty", "NoAudioReceived", "TimeoutError"}

\* voiceover.py:59-93  generate_voiceover_audio: the exception that leaves
\* the function ("None" when it returns) and the word timings returned.
\* The handler of RuntimeError submits the coroutine to a thread; what
\* future.result raises there is outside the try and leaves the function.
generate_voiceover_audio(text, first, retry) ==
    LET outcome      == IF first = "RuntimeError" THEN retry ELSE first
        word_timings == IF outcome = "timings" THEN TtsTimings ELSE <<>>
    IN  IF first = "RuntimeError" /\ retry \notin {"timings", "empty"}
        THEN [raised |-> retry, word_timings |-> <<>>]
        ELSE [raised |-> "None",
              word_timings |-> IF Len(word_timings) = 0
                               THEN estimate_word_timings(text)
                               ELSE word_timings]

\* the narration texts: letters and blanks
Texts == Seqs({"a", " "}, MaxChars)

CallEstimate ==
    /\ call.fn = "_estimate_word_timings"
    /\ Len(call.rets) < MaxCalls
    /\ call' = [call EXCEPT !.rets = Append(@, estimate_word_timings(call.args))]
    /\ UNCHANGED Service

CallVoiceover ==
    /\ call.fn = "generate_voiceover_audio"
    /\ Len(call.rets) < MaxCalls
    /\ call' = [call EXCEPT !.rets =
                   Append(@, generate_voiceover_audio(call.args.text,
                                 call.args.first, call.args.retry))]
    /\ UNCHANGED Service

\* ------------------------------------------------- timestamps, gemini_ai.py
DigitChars == <<"0", "1", "2", "3", "4", "5", "6", "7", "8", "9">>

IsDigit(c) == \E i \in 1..Len(DigitChars) : DigitChars[i] = c

DigitValue(c) == (CHOOSE i \in 1..Len(DigitChars) : DigitChars[i] = c) - 1

\* int(s) accepts s when, blanks at both ends aside, it is a run of digits
\* (signs and underscores do not occur in the texts followed here)
IsInt(s) ==
    /\ Len(strip(s)) > 0
    /\ \A i \in 1..Len(strip(s)) : IsDigit(strip(s)[i])

RECURSIVE digits_value(_)
digits_value(s) ==
    IF Len(s) = 0 THEN 0
    ELSE digits_value(SubSeq(s, 1, Len(s) - 1)) * 10 + DigitValue(s[Len(s)])

\* int(s) for an s that IsInt accepts
int(s) == digits_value(strip(s))

\* str(n) for n >= 0
RECURSIVE decimal(_)
decimal(n) ==
    IF n < 10 THEN <<DigitChars[n + 1]>>
    ELSE decimal(n \div 10) \o <<DigitChars[(n % 10) + 1]>>

\* f"{n:02d}"
pad2(n) == IF n < 10 THEN <<"0">> \o decimal(n) ELSE decimal(n)

\* str.split(sep): the fields between the separators, empty fields kept
RECURSIVE split_on(_, _)
split_on(text, sep) ==
    IF \E i \in 1..Len(text) : text[i] = sep
    THEN LET i == CHOOSE i \in 1..Len(text) :
                      /\ text[i] = sep
                      /\ \A j \in 1..(i - 1) : text[j] # sep
         IN  <<SubSeq(text, 1, i - 1)>> \o split_on(SubSeq(text, i + 1, Len(text)), sep)
    ELSE <<text>>

\* a formatter that drops the whole hours
format_mmss_wrapping(start) == pad2((start \div 60) % 60) \o <<":">> \o pad2(start % 60)

\* gemini_ai.py:62-63  f"{int(start // 60):02d}:{int(start % 60):02d}", for a
\* start that is a whole number of seconds
format_mmss(start) == pad2(start \div 60) \o <<":">> \o pad2(start % 60)

\* gemini_ai.py:265-272  timestamp_to_seconds: the exception raised ("None"
\* when it returns) and the value returned.  int() raises ValueError on a
\* field that is not a number; no handler encloses the conversions.
timestamp_to_seconds(ts) ==
    LET parts == split_on(strip(ts), ":")
        seconds(i) == int(parts[i])
    IN  IF Len(parts) \in {2, 3} /\ \E i \in 1..Len(parts) : ~IsInt(parts[i])
        THEN [raised |-> "ValueError", value |-> 0]
        ELSE [raised |-> "None",
              value  |-> IF Len(parts) = 2 THEN seconds(1) * 60 + seconds(2)
                         ELSE IF Len(parts) = 3
                         THEN seconds(1) * 3600 + seconds(2) * 60 + seconds(3)
                         ELSE 0]

\* gemini_ai.py:194-203  the boundary used when the service gave no clips
FallbackBoundary ==
    [clip_number |-> 1,
     start_time  |-> <<"0", "0", ":", "1", "5">>,
     end_time    |-> <<"0", "1", ":", "0", "5">>]

\* gemini_ai.py:140-175  the service is not reachable (the call or json.loads
\* raises and data = []), or it answers with an empty array
NoClipReplies == {"unavailable", "[]"}
SourceDurations == {40, 600}

\* the timestamp texts followed: digits, colons and a letter
TsChars == {"0", "5", ":", "x"}
Timestamps == Seqs(TsChars, MaxTsChars)

\* MM:SS or HH:MM:SS: two or three fields of two digits
IsTimecode(ts) ==
    /\ Len(split_on(ts, ":")) \in {2, 3}
    /\ \A i \in 1..Len(split_on(ts, ":")) :
         /\ Len(split_on(ts, ":")[i]) = 2
         /\ IsDigit(split_on(ts, ":")[i][1])
         /\ IsDigit(split_on(ts, ":")[i][2])

\* the whole seconds the timecodes followed denote
TimecodeSeconds ==
    {timestamp_to_seconds(ts).value : ts \in {x \in Timestamps : IsTimecode(x)}}

\* main.py:105-106  process_video parses a boundary's start_time or end_time
CallTimestamp ==
    /\ call.fn = "timestamp_to_seconds"
    /\ Len(call.rets) = 0
    /\ call' = [call EXCEPT !.rets = <<timestamp_to_seconds(call.args)>>]
    /\ UNCHANGED Service

\* gemini_ai.py:58-64 then main.py:105-106: a segment time is written on the
\* transcript and the text is parsed again
CallFormatParse ==
    /\ call.fn = "format_mmss"
    /\ Len(call.rets) = 0
    /\ call' = [call EXCEPT !.rets =
                   <<[text   |-> format_mmss(call.args),
                      parsed |-> timestamp_to_seconds(format_mmss(call.args))]>>]
    /\ UNCHANGED Service

\* ------------------------- the SRT fallback of add_subtitles, Strategy 2
\* str.replace of one character by another
replace_char(text, old, new) ==
    [i \in 1..Len(text) |-> IF text[i] = old THEN new ELSE text[i]]

\* sep.join(words)
RECURSIVE join(_, _)
join(words, sep) ==
    IF Len(words) = 0 THEN <<>>
    ELSE IF Len(words) = 1 THEN words[1]
    ELSE words[1] \o sep \o join(Tail(words), sep)

\* video_processor.py:242
clean_text(subtitle_text) ==
    str_upper(strip(replace_char(replace_char(subtitle_text, "\n", " "), "\"", "'")))

\* windows of five words that start every four words
chunks_overlapping(words) ==
    [k \in 1..((Len(words) + ChunkSeconds - 1) \div ChunkSeconds) |->
        SubSeq(words, ChunkSeconds * (k - 1) + 1,
               IF ChunkSeconds * (k - 1) + ChunkWords < Len(words)
               THEN ChunkSeconds * (k - 1) + ChunkWords ELSE Len(words))]

\* video_processor.py:255  words[i:i+5] for i in range(0, len(words), 5)
chunks(words) ==
    [k \in 1..((Len(words) + ChunkWords - 1) \div ChunkWords) |->
        SubSeq(words, ChunkWords * (k - 1) + 1,
               IF ChunkWords * k < Len(words) THEN ChunkWords * k ELSE Len(words))]

\* video_processor.py:262-266  f"{h:02d}:{m:02d}:{s:02d},000"
format_srt_time(total_seconds) ==
    pad2(total_seconds \div 3600) \o <<":">>
        \o pad2((total_seconds % 3600) \div 60) \o <<":">>
        \o pad2(total_seconds % 60) \o <<",", "0", "0", "0">>

\* video_processor.py:254-270  the entries of the .srt file, in order: the
\* number, the two times and the text of each
srt_lines(subtitle_text) ==
    LET words == split(clean_text(subtitle_text))
    IN  [k \in 1..Len(chunks(words)) |->
            [number  |-> k,
             start_t |-> format_srt_time((k - 1) * ChunkSeconds),
             end_t   |-> format_srt_time(k * ChunkSeconds),
             chunk   |-> join(chunks(words)[k], <<" ">>)]]

\* the plain texts followed: words joined by a blank, two blanks or a newline
SrtWords == {<<"h", "i">>, <<"i">>}
Separators == {<<" ">>, <<" ", " ">>, <<"\n">>}

\* video_processor.py:239-273  Strategy 2 builds the .srt file of a clip text
CallSrtLines ==
    /\ call.fn = "srt_lines"
    /\ Len(call.rets) = 0
    /\ call' = [call EXCEPT !.rets = <<srt_lines(call.args.text)>>]
    /\ UNCHANGED Service

\* ------------------------------------------- extract_clip_words, main.py
\* Transcript word times are floats in seconds, written here in milliseconds;
\* the clip start and end are whole seconds (timestamp_to_seconds).
\* main.py:36-37  int((w - start_sec) * 1000): the float product of a positive
\* difference may fall just below the whole number, and int() then gives
\* one millisecond less (lossy); a difference of 0 is exact.
int_ms(diff_ms, lossy) == IF lossy /\ diff_ms > 0 THEN diff_ms - 1 ELSE diff_ms

\* extract_clip_words keeping the times of the source
extract_clip_words_unrebased(all_word_timings, start_sec, end_sec, lossy) ==
    LET InClip(w) == /\ w.start >= start_sec * 1000
                     /\ w.end <= end_sec * 1000 + ClipEndSlackMs
        kept == SelectSeq(all_word_timings, InClip)
    IN  [i \in 1..Len(kept) |->
            [word |-> kept[i].word, start_ms |-> kept[i].start, end_ms |-> kept[i].end]]

\* main.py:23-39  extract_clip_words
extract_clip_words(all_word_timings, start_sec, end_sec, lossy) ==
    LET InClip(w) == /\ w.start >= start_sec * 1000
                     /\ w.end <= end_sec * 1000 + ClipEndSlackMs
        kept == SelectSeq(all_word_timings, InClip)
    IN  [i \in 1..Len(kept) |->
            [word     |-> kept[i].word,
             start_ms |-> int_ms(kept[i].start - start_sec * 1000, lossy),
             end_ms   |-> int_ms(kept[i].end - start_sec * 1000, lossy)]]

\* the transcript words followed; a word's end may precede its start
TranscriptWords ==
    [word : {"hi"}, start : {k * 500 : k \in 0..MaxHalfSeconds},
                    end   : {k * 500 : k \in 0..MaxHalfSeconds}]

\* main.py:116  process_video picks the words of the clip in hand
CallExtractClipWords ==
    /\ call.fn = "extract_clip_words"
    /\ Len(call.rets) = 0
    /\ call' = [call EXCEPT !.rets =
                   <<extract_clip_words(call.args.words, call.args.start_sec,
                                        call.args.end_sec, call.args.lossy)>>]
    /\ UNCHANGED Service

\* ----------------------------------------- mix_voiceover, video_processor.py
\* the fade start without the clamp
fade_start_unclamped(duration) == duration - MusicFadeSeconds

\* video_processor.py:74  max(0, duration - 5)
fade_start(duration) ==
    IF duration - MusicFadeSeconds > 0 THEN duration - MusicFadeSeconds ELSE 0

\* video_processor.py:57-120  mix_voiceover by the outcome of the duration
\* probe, whether a music file exists and the exit code of ffmpeg: the
\* duration planned with, the layers mixed, the fade start given to afade (0
\* without a music layer, where none is computed), whether ffmpeg was run, and
\* the exception raised.  Durations are whole seconds here, floats in the code.
mix_voiceover(probe, music, rc) ==
    LET duration == IF probe.ok THEN probe.seconds ELSE ProbeFallbackSeconds
    IN  [duration   |-> duration,
         layers     |-> IF music THEN 3 ELSE 2,
         fade_start |-> IF music THEN fade_start(duration) ELSE 0,
         issued     |-> TRUE,
         raised     |-> IF rc # 0 THEN "ffmpeg mix failed" ELSE "None"]

\* video_processor.py:62-70  ffprobe prints the duration, or fails
Probes ==
    {[ok |-> TRUE, seconds |-> d] : d \in 0..MaxProbed}
        \cup {[ok |-> FALSE, seconds |-> 0]}

CallMixVoiceover ==
    /\ call.fn = "mix_voiceover"
    /\ Len(call.rets) = 0
    /\ call' = [call EXCEPT !.rets =
                   <<mix_voiceover(call.args.probe, call.args.music, call.args.rc)>>]
    /\ UNCHANGED Service

\* ------------------------------ cleanup_temp_files, video_processor.py
StagedNames == {"clip_1.mp4", "mixed_1.mp4", "sub_1.ass", "sub_1.srt"}

\* the staging directories of at most MaxStaged entries
StagingDirs == {d \in SUBSET StagedNames : Cardinality(d) <= MaxStaged}

\* video_processor.py:299-305  cleanup_temp_files, run again on what the run
\* before left: a file that is gone is no longer listed, a stuck one is
CallCleanup ==
    /\ call.fn = "cleanup_temp_files"
    /\ Len(call.rets) < MaxCalls
    /\ LET first  == Len(call.rets) = 0
           listed == IF first THEN call.args.listed
                              ELSE call.rets[Len(call.rets)].dir
           gone   == IF first THEN call.args.gone ELSE {}
       IN  call' = [call EXCEPT !.rets =
                      Append(@, unlink_all(listed, gone, call.args.stuck))]
    /\ UNCHANGED Service

\* ------------------------------------ run_pipeline, main.py and downloader.py
VideoIds == {"v1", "v2", "v3"}

\* get_latest_video_from_channel of each channel: a video id, or None
LatestVideos == Seqs(VideoIds \cup {"None"}, MaxChannels) \ {<<>>}

\* the processed list on disk when run_pipeline starts
ProcessedLists == {<<>>, <<"v1">>, <<"v3", "v1">>}

\* q[-n:]
last_n(q, n) == IF Len(q) <= n THEN q ELSE SubSeq(q, Len(q) - n + 1, Len(q))

\* downloader.py:107-110  mark_processed: the list on disk afterwards
mark_processed(processed, video_id) ==
    last_n(Append(processed, video_id), ProcessedCap)

\* downloader.py:84-104  check_new_videos: the latest video of each channel
\* that has one which is not in the processed list, in channel order
check_new_videos(latest, processed) ==
    SelectSeq(latest,
              LAMBDA v : v # "None"
                         /\ \A i \in 1..Len(processed) : processed[i] # v)

\* the videos process_video was called for so far
Attempts(events) ==
    Cardinality({k \in 1..Len(events) : events[k].op = "process_video"})

\* a loop that ends at the first exception
next_video_until_error(events, batch) ==
    IF Attempts(events) < Len(batch)
       /\ \A k \in 1..Len(events) : ~events[k].raised
    THEN Attempts(events) + 1
    ELSE 0

\* main.py:195-200  the for loop: the index of the video the next iteration
\* takes, 0 when the batch is through; "continue" after an exception
next_video(events, batch) ==
    IF Attempts(events) < Len(batch) THEN Attempts(events) + 1 ELSE 0

\* main.py:188  new_videos, computed once before the loop
NewVideos == check_new_videos(call.args.latest, call.args.processed)

\* the processed list on disk now
ProcessedNow ==
    IF Len(call.rets) = 0 THEN call.args.processed
    ELSE call.rets[Len(call.rets)].db

\* process_video of the iteration returned, mark_processed comes next
MarkPending ==
    /\ Len(call.rets) > 0
    /\ call.rets[Len(call.rets)].op = "process_video"
    /\ ~call.rets[Len(call.rets)].raised

\* main.py:195-197, 199-200  process_video for the next video of the batch:
\* it returns, or raises and the iteration ends
RunProcessVideo ==
    /\ call.fn = "run_pipeline"
    /\ ~MarkPending
    /\ next_video(call.rets, NewVideos) # 0
    /\ \E raised \in BOOLEAN :
         call' = [call EXCEPT !.rets =
                    Append(@, [op     |-> "process_video",
                               video  |-> NewVideos[next_video(call.rets, NewVideos)],
                               raised |-> raised,
                               db     |-> ProcessedNow])]
    /\ UNCHANGED Service

\* main.py:198-200  mark_processed after process_video returned: the list is
\* saved, or reading or writing it raises and the iteration ends
RunMarkProcessed ==
    /\ call.fn = "run_pipeline"
    /\ MarkPending
    /\ \E raised \in BOOLEAN :
         LET v == call.rets[Len(call.rets)].video
         IN  call' = [call EXCEPT !.rets =
                        Append(@, [op     |-> "mark_processed",
                                   video  |-> v,
                                   raised |-> raised,
                                   db     |-> IF raised THEN ProcessedNow
                                              ELSE mark_processed(ProcessedNow, v)])]
    /\ UNCHANGED Service

\* ------------------------------------------------------- specifications
\* the state after "import api": an empty registry, empty directories, and the
\* namespace of video_processor as src/video_processor.py binds it
Init ==
    /\ jobs = <<>>
    /\ nextId = 1
    /\ threads = <<>>
    /\ downloads = {}
    /\ clipsDir = {}
    /\ outputDir = {}
    /\ vp_globals = VideoProcessorNames
    /\ groq_client = "Groq"
    /\ call = NoCall
    /\ cleanups = 0
    /\ resp = Response("none", 0, "")
    /\ evicted = NoRecord

Next ==
    \/ \E u \in Urls : start_processing(u)
    \/ \E id \in 1..nextId : get_job(id)
    \/ cleanup
    \/ \E t \in DOMAIN threads : Start(t)
    \/ \E t \in DOMAIN threads : Download(t)
    \/ \E t \in DOMAIN threads : Music(t)
    \/ \E t \in DOMAIN threads : Extract(t)
    \/ \E t \in DOMAIN threads : Transcribe(t)
    \/ \E t \in DOMAIN threads : Select(t)
    \/ \E t \in DOMAIN threads : Cut(t)
    \/ \E t \in DOMAIN threads : FailStatus(t)
    \/ \E t \in DOMAIN threads : FailError(t)

Spec == Init /\ [][Next]_vars


\* The stages behind the cut.  cut_clip as written raises NameError before the
\* engine runs, so under Spec no thread passes the cut.  InitStages binds the
\* name fade_out in the namespace of video_processor, which makes cut_clip
\* callable and lets the engine's exit code decide the cut; every other
\* definition is the one Spec uses.
InitStages ==
    /\ jobs = <<>>
    /\ nextId = 1
    /\ threads = <<>>
    /\ downloads = {}
    /\ clipsDir = {}
    /\ outputDir = {}
    /\ vp_globals = VideoProcessorNames \cup {"fade_out"}
    /\ groq_client = "Groq"
    /\ call = NoCall
    /\ cleanups = 0
    /\ resp = Response("none", 0, "")
    /\ evicted = NoRecord

NextStages ==
    \/ \E u \in Urls : start_processing(u)
    \/ \E id \in 1..nextId : get_job(id)
    \/ \E t \in DOMAIN threads : Start(t)
    \/ \E t \in DOMAIN threads : Download(t)
    \/ \E t \in DOMAIN threads : Music(t)
    \/ \E t \in DOMAIN threads : Extract(t)
    \/ \E t \in DOMAIN threads : Transcribe(t)
    \/ \E t \in DOMAIN threads : Select(t)
    \/ \E t \in DOMAIN threads : Cut(t)
    \/ \E t \in DOMAIN threads : FailStatus(t)
    \/ \E t \in DOMAIN threads : FailError(t)
    \/ \E t \in DOMAIN threads : Mix(t)
    \/ \E t \in DOMAIN threads : Tier1(t)
    \/ \E t \in DOMAIN threads : Tier2(t)
    \/ \E t \in DOMAIN threads : Tier3(t)
    \/ \E t \in DOMAIN threads : Finalize(t)
    \/ \E t \in DOMAIN threads : Meta(t)
    \/ \E t \in DOMAIN threads : EndRun(t)
    \/ \E t \in DOMAIN threads : DoneStatus(t)
    \/ \E t \in DOMAIN threads : DoneProgress(t)
    \/ \E t \in DOMAIN threads : DoneStep(t)
    \/ \E t \in DOMAIN threads : DoneClips(t)

SpecStages == InitStages /\ [][NextStages]_vars

\* The same stages with /cleanup among the requests
NextService ==
    \/ NextStages
    \/ cleanup

SpecService == InitStages /\ [][NextService]_vars


\* The service deployed without GROQ_API_KEY: gemini_ai.groq_client is None
\* (gemini_ai.py:10-15).  No run passes the transcription, so the actions behind
\* it (the selection, the clip loop) are left out of the next-state relation.
InitNoKey ==
    /\ jobs = <<>>
    /\ nextId = 1
    /\ threads = <<>>
    /\ downloads = {}
    /\ clipsDir = {}
    /\ outputDir = {}
    /\ vp_globals = VideoProcessorNames
    /\ groq_client = "None"
    /\ call = NoCall
    /\ cleanups = 0
    /\ resp = Response("none", 0, "")
    /\ evicted = NoRecord

NextNoKey ==
    \/ \E u \in Urls : start_processing(u)
    \/ \E id \in 1..nextId : get_job(id)
    \/ cleanup
    \/ \E t \in DOMAIN threads : Start(t)
    \/ \E t \in DOMAIN threads : Download(t)
    \/ \E t \in DOMAIN threads : Music(t)
    \/ \E t \in DOMAIN threads : Extract(t)
    \/ \E t \in DOMAIN threads : Transcribe(t)
    \/ \E t \in DOMAIN threads : FailStatus(t)
    \/ \E t \in DOMAIN threads : FailError(t)

SpecNoKey == InitNoKey /\ [][NextNoKey]_vars

\* The registry at capacity: MaxJobs earlier jobs were submitted one after the
\* other and each failed in download_video, which leaves its record failed with
\* progress 0 and the directories empty.
InitCap ==
    /\ jobs = [i \in 1..MaxJobs |-> FailedRecord(i - MaxJobs - 1)]
    /\ nextId = 1
    /\ threads = <<>>
    /\ downloads = {}
    /\ clipsDir = {}
    /\ outputDir = {}
    /\ vp_globals = VideoProcessorNames
    /\ groq_client = "Groq"
    /\ call = NoCall
    /\ cleanups = 0
    /\ resp = Response("submit", 200, "http://v")
    /\ evicted = NoRecord

SpecCap == InitCap /\ [][Next]_vars


\* generate_ass_subtitles applied to the word timings a caller may pass
Idle ==
    /\ jobs = <<>>
    /\ nextId = 1
    /\ threads = <<>>
    /\ downloads = {}
    /\ clipsDir = {}
    /\ outputDir = {}
    /\ vp_globals = VideoProcessorNames
    /\ groq_client = "Groq"
    /\ cleanups = 0
    /\ resp = Response("none", 0, "")
    /\ evicted = NoRecord

InitCaptions ==
    /\ Idle
    /\ call \in
         {[fn |-> "generate_ass_subtitles", args |-> a, rets |-> <<>>] :
             a \in Seqs(WordTimings, MaxWords)}
         \cup
         {[fn |-> "add_subtitles",
           args |-> [clip_index |-> n, timed |-> w, rc1 |-> rc1, rc2 |-> rc2],
           rets |-> <<>>] :
             n \in 1..MaxClipNumber, w \in BOOLEAN, rc1 \in {0, 1}, rc2 \in {0, 1}}
         \cup
         {[fn |-> "srt_lines", args |-> [words |-> ws, text |-> join(ws, sep)],
           rets |-> <<>>] : ws \in Seqs(SrtWords, MaxSrtWords), sep \in Separators}

         \cup
         {[fn |-> "extract_clip_words",
           args |-> [words |-> ws, start_sec |-> s, end_sec |-> 1, lossy |-> l],
           rets |-> <<>>] :
             ws \in Seqs(TranscriptWords, MaxWords), s \in {0, 1}, l \in BOOLEAN}

NextCaptions ==
    CallGenerateAss \/ CallAddSubtitles \/ CallSrtLines \/ CallExtractClipWords

SpecCaptions == InitCaptions /\ [][NextCaptions]_vars

\* _estimate_word_timings and generate_voiceover_audio applied to the texts
InitVoiceover ==
    /\ Idle
    /\ call \in
         {[fn |-> "_estimate_word_timings", args |-> x, rets |-> <<>>] :
             x \in Texts}
         \cup
         {[fn |-> "generate_voiceover_audio",
           args |-> [text |-> x, first |-> f, retry |-> r], rets |-> <<>>] :
             x \in Texts, f \in FirstOutcomes, r \in RetryOutcomes}
         \cup
         {[fn |-> "mix_voiceover", args |-> [probe |-> p, music |-> m, rc |-> rc],
           rets |-> <<>>] : p \in Probes, m \in BOOLEAN, rc \in {0, 1}}

NextVoiceover == CallEstimate \/ CallVoiceover \/ CallMixVoiceover

SpecVoiceover == InitVoiceover /\ [][NextVoiceover]_vars

\* gemini_ai.py:193-205 then main.py:103-106: selection without clips from the
\* service, and the boundary process_video cuts: select_best_clips puts the
\* fallback boundary where the model's clip numbers show the fallback clip
CallSelectFallback ==
    /\ call.fn = "select_best_clips"
    /\ Len(call.rets) = 0
    /\ LET sel == select_best_clips([type |-> "list", items |-> <<>>])
       IN  call' = [call EXCEPT !.rets =
                      <<[clips |-> [i \in 1..Len(sel.clips) |-> FallbackBoundary],
                         start |-> [i \in 1..Len(sel.clips) |->
                                      timestamp_to_seconds(FallbackBoundary.start_time).value],
                         end   |-> [i \in 1..Len(sel.clips) |->
                                      timestamp_to_seconds(FallbackBoundary.end_time).value]]>>]
    /\ UNCHANGED Service

\* boundaries the selection service may return: the pipeline does not
\* validate them, so the end may precede the start or lie far after it
BoundaryTimes ==
    {<<"0", "0", ":", "0", "5">>, <<"0", "0", ":", "1", "5">>,
     <<"0", "1", ":", "0", "5">>, <<"0", "5", ":", "0", "0">>}

\* main.py:103-110  the head of the loop body for one boundary: both times are
\* parsed and cut_clip is called with them, inside no try; the exception that
\* leaves process_video, or "None"
CallCutBoundary ==
    /\ call.fn = "cut_clip"
    /\ Len(call.rets) = 0
    /\ LET start == timestamp_to_seconds(call.args.start_time)
           end   == timestamp_to_seconds(call.args.end_time)
           cut   == cut_clip(vp_globals, call.args.rc)
       IN  call' = [call EXCEPT !.rets =
                      <<[start  |-> start.value,
                         end    |-> end.value,
                         raised |-> IF start.raised # "None" THEN start.raised
                                    ELSE IF end.raised # "None" THEN end.raised
                                    ELSE IF cut # "ok" THEN cut
                                    ELSE "None"]>>]
    /\ UNCHANGED Service

\* timestamp_to_seconds applied to the timestamp texts, and to the texts
\* the transcript formatter writes
InitTimecode ==
    /\ Idle
    /\ call \in
         {[fn |-> "timestamp_to_seconds", args |-> ts, rets |-> <<>>] :
             ts \in Timestamps}
         \cup
         {[fn |-> "format_mmss", args |-> n, rets |-> <<>>] : n \in TimecodeSeconds}
         \cup
         {[fn |-> "select_best_clips", args |-> [reply |-> r, source_seconds |-> d],
           rets |-> <<>>] : r \in NoClipReplies, d \in SourceDurations}
         \cup
         {[fn |-> "cut_clip",
           args |-> [start_time |-> s, end_time |-> e, rc |-> rc], rets |-> <<>>] :
             s \in BoundaryTimes, e \in BoundaryTimes, rc \in {0, 1}}

NextTimecode ==
    CallTimestamp \/ CallFormatParse \/ CallSelectFallback \/ CallCutBoundary

SpecTimecode == InitTimecode /\ [][NextTimecode]_vars

\* cleanup_temp_files over the staging directories, and run_pipeline over
\* the channels' latest videos and the processed list
InitPipeline ==
    /\ Idle
    /\ call \in
         {[fn |-> "cleanup_temp_files",
           args |-> [listed |-> d, gone |-> g, stuck |-> s], rets |-> <<>>] :
             d \in StagingDirs, g \in SUBSET StagedNames, s \in SUBSET StagedNames}
         \cup
         {[fn |-> "run_pipeline", args |-> [latest |-> l, processed |-> p],
           rets |-> <<>>] : l \in LatestVideos, p \in ProcessedLists}

NextPipeline == CallCleanup \/ RunProcessVideo \/ RunMarkProcessed

SpecPipeline == InitPipeline /\ [][NextPipeline]_vars

\* ==================================================================== claims
Processing == {i \in 1..Len(jobs) : jobs[i].status = "processing"}

ActiveRuns == {t \in DOMAIN threads : Active(threads[t])}

\* a step taken by start_processing
SubmitStep == nextId' # nextId \/ (resp' # resp /\ resp'.op = "submit")

Last(q) == q[Len(q)]

CaptionPcs == {"subs", "tier2", "tier3"}

Tier1Outcomes == {"tier1 ok", "tier1 failed"}

Tier2Outcomes == {"tier2 ok", "tier2 failed"}

\* C1: at most one record is processing in every reachable state, and a
\* submission made while a record is processing is rejected (409 for a
\* well-formed url, 400 for a malformed one), stores no record and starts no worker.
C1_SingleFlight ==
    /\ [](Cardinality(Processing) <= 1)
    /\ [][(SubmitStep /\ Processing # {}) =>
            /\ resp'.code = IF UrlIsBlank(resp'.url) \/ ~UrlStartsWithHttp(resp'.url)
                            THEN 400 ELSE 409
            /\ jobs' = jobs
            /\ threads' = threads
            /\ nextId' = nextId]_vars

C1_Rejected ==
    /\ resp = Response("submit", 409, "http://v")
    /\ Processing # {}
    /\ Len(jobs) = 1
    /\ DOMAIN threads = {1}

\* C2: the status of a record changes only from processing to completed or
\* from processing to failed; a completed or failed record keeps its status.
C2_StatusTransitions ==
    [][\A i \in 1..Len(jobs) :
          jobs[i].id \in Ids(jobs') =>
              LET was == jobs[i].status
                  is == Get(jobs', jobs[i].id).status
              IN is = was \/ (was = "processing" /\ is \in {"completed", "failed"})]_vars

C2_Completed ==
    /\ threads = <<>>
    /\ \E i \in 1..Len(jobs) : jobs[i].status = "completed" /\ jobs[i].clips # <<>>

\* C3: at most one worker executes process_video at any time, whatever the
\* interleaving of submissions, polls and /cleanup with a running worker.
C3_OneActiveRun == Cardinality(ActiveRuns) <= 1

\* C4: the caption stage never sends a run to the failure handler, whatever
\* tiers fail: add_subtitles returns an artifact that exists, a finalized clip is
\* in the output directory, and when every tier failed the clip is the mixed
\* artifact without captions.
C4_CaptionsNeverFail ==
    /\ [](\A t \in DOMAIN threads :
            LET fr == threads[t]
                exhausted == fr.tried # <<>> /\ Last(fr.tried) = "tier3"
            IN /\ fr.pc = "finalize" =>
                    LET n == Head(fr.clips)
                    IN \/ /\ fr.result = "output"
                          /\ ~exhausted
                          /\ \E f \in outputDir :
                               f.kind = "final_clip" /\ f.n = n /\ f.by = t /\ f.cap # "none"
                       \/ /\ fr.result = "mixed"
                          /\ exhausted
                          /\ \E f \in clipsDir : f.kind = "mixed" /\ f.n = n /\ f.by = t
               /\ fr.pc = "meta" =>
                    \E f \in outputDir :
                       /\ f.kind = Last(fr.files).kind
                       /\ f.n = Last(fr.files).n
                       /\ f.n = Head(fr.clips)
                       /\ f.by = t
                       /\ exhausted => (f.kind = "clip" /\ f.cap = "none"))
    /\ [][\A t \in DOMAIN threads :
            threads[t].pc \in CaptionPcs =>
                /\ t \in DOMAIN threads'
                /\ threads'[t].pc \in CaptionPcs \cup {"finalize"}]_vars

C4_AllTiersFailed ==
    \E t \in DOMAIN threads :
       /\ threads[t].pc = "meta"
       /\ threads[t].tried = <<"tier1 failed", "tier2 failed", "tier3">>
       /\ \E f \in outputDir : f.kind = "clip" /\ f.by = t /\ f.cap = "none"

\* C5: the caption tiers are attempted in order and the first success is used:
\* Tier 1 first whenever the clip has word timings, Tier 2 exactly when Tier 1
\* was skipped or failed, Tier 3 only after Tier 2 failed; a Tier 1 failure
\* followed by a Tier 2 success gives a final clip with captions.
C5_TierOrder ==
    \A t \in DOMAIN threads :
       LET fr == threads[t]
           tr == fr.tried
       IN /\ \A k \in 1..Len(tr) :
               /\ tr[k] \in Tier1Outcomes => (k = 1 /\ fr.cw)
               /\ tr[k] \in Tier2Outcomes =>
                     (k = 1 /\ ~fr.cw) \/ (k = 2 /\ tr[1] = "tier1 failed")
               /\ tr[k] = "tier3" => (k > 1 /\ tr[k - 1] = "tier2 failed")
               /\ k > 1 => tr[k - 1] \notin {"tier1 ok", "tier2 ok"}
          /\ fr.pc \in {"tier2"} => tr = <<"tier1 failed">>
          /\ fr.pc \in {"tier3"} => (tr # <<>> /\ Last(tr) = "tier2 failed")
          /\ fr.pc \in {"finalize", "meta"} =>
               /\ tr # <<>>
               /\ fr.cw => tr[1] \in Tier1Outcomes
               /\ ~fr.cw => tr[1] \in Tier2Outcomes
               /\ tr[1] = "tier1 failed" => (Len(tr) >= 2 /\ tr[2] \in Tier2Outcomes)
               /\ Last(tr) \in {"tier1 ok", "tier2 ok", "tier3"}
               /\ fr.result = "output" <=> Last(tr) \in {"tier1 ok", "tier2 ok"}
          /\ (fr.pc = "meta" /\ tr = <<"tier1 failed", "tier2 ok">>) =>
               \E f \in outputDir :
                  /\ f.kind = Last(fr.files).kind
                  /\ f.n = Last(fr.files).n
                  /\ f.by = t
                  /\ f.cap = "text"

C5_Tier2AfterTier1 ==
    \E t \in DOMAIN threads :
       /\ threads[t].pc = "meta"
       /\ threads[t].tried = <<"tier1 failed", "tier2 ok">>

CutMixErrors == {"name 'fade_out' is not defined", "ffmpeg cut failed", "ffmpeg mix failed"}

C8_ProgressMonotone ==
    /\ [](\A i \in 1..Len(jobs) : jobs[i].progress \in 0..100)
    /\ [][\A i \in 1..Len(jobs) :
            jobs[i].id \in Ids(jobs') =>
                Get(jobs', jobs[i].id).progress >= jobs[i].progress]_vars

C8_Finished ==
    \E i \in 1..Len(jobs) :
       /\ jobs[i].status = "completed"
       /\ jobs[i].progress = 100
       /\ jobs[i].current_step = "Done!"

\* C9: the capacity eviction of a submission never deletes a processing
\* record: the record it deletes is not processing, and every processing record
\* is still stored after the submission.
C9_EvictionSparesActive ==
    /\ [](evicted.status # "processing")
    /\ [][SubmitStep =>
            \A i \in 1..Len(jobs) :
               jobs[i].status = "processing" => jobs[i].id \in Ids(jobs')]_vars

C9_Evicted ==
    /\ evicted = FailedRecord(0 - MaxJobs)
    /\ Len(jobs) = MaxJobs + 1
    /\ jobs[1] = FailedRecord(1 - MaxJobs)

\* C10: with cap 20 the registry holds at most 20 records after any accepted
\* submission.
C10_AtMostCap == Len(jobs) <= MaxJobs

\* C11: a well-formed submission made while no record is processing is
\* accepted: answered 200, it stores exactly one new record (processing,
\* progress 0, no clips, no error) under a fresh id, leaves every record it keeps
\* as it was, and starts exactly one worker, at the entry of process_video.
C11_AcceptedWhenIdle ==
    [][(/\ SubmitStep
        /\ Processing = {}
        /\ ~UrlIsBlank(resp'.url)
        /\ UrlStartsWithHttp(resp'.url)) =>
           /\ resp'.code = 200
           /\ nextId' = nextId + 1
           /\ Ids(jobs') \ Ids(jobs) = {nextId}
           /\ Get(jobs', nextId) = [id |-> nextId, status |-> "processing",
                                    progress |-> 0, current_step |-> "Starting...",
                                    clips |-> <<>>, error |-> "None"]
           /\ \A i \in 1..Len(jobs) :
                 jobs[i].id \in Ids(jobs') => Get(jobs', jobs[i].id) = jobs[i]
           /\ Len(jobs') >= Len(jobs)
           /\ DOMAIN threads' \ DOMAIN threads = {nextId}
           /\ threads'[nextId].pc = "start"
           /\ \A t \in DOMAIN threads :
                 t \in DOMAIN threads' /\ threads'[t] = threads[t]]_vars

C11_AcceptedAfterFailed ==
    /\ Len(jobs) = 2
    /\ jobs[1].status = "failed"
    /\ jobs[1].error # "None"
    /\ jobs[2].status = "processing"
    /\ jobs[2].progress = 0
    /\ resp = Response("submit", 200, "http://v")
    /\ DOMAIN threads = {2}
    /\ threads[2].pc = "start"

LoopPcs == {"cut", "mix", "subs", "tier2", "tier3", "finalize", "meta"}

\* the positions from which a position of the clip loop is entered
StageBefore(pc) ==
    CASE pc = "cut" -> {"select", "meta"}
      [] pc = "mix" -> {"cut"}
      [] pc = "subs" -> {"mix"}
      [] pc = "tier2" -> {"subs"}
      [] pc = "tier3" -> {"subs", "tier2"}
      [] pc = "finalize" -> {"subs", "tier2", "tier3"}
      [] pc = "meta" -> {"finalize"}
      [] OTHER -> {}

\* C12: within a clip the stages run in the order cut, mix, captions,
\* finalize, each entered only from the one before it and with that stage's
\* artifact in place; the boundaries are taken from the head of the selection,
\* one at a time, and the next is taken only after the clip in hand is finalized.
C12_StageOrder ==
    /\ [](\A t \in DOMAIN threads :
            LET fr == threads[t]
            IN fr.pc \in LoopPcs =>
                 /\ fr.clips # <<>>
                 /\ fr.pc = "mix" =>
                      \E f \in clipsDir :
                         f.kind = "clip" /\ f.n = Head(fr.clips) /\ f.by = t
                 /\ fr.pc \in CaptionPcs \cup {"finalize"} =>
                      \E f \in clipsDir :
                         f.kind = "mixed" /\ f.n = Head(fr.clips) /\ f.by = t)
    /\ [][\A t \in DOMAIN threads \cap DOMAIN threads' :
            LET fr == threads[t]
                to == threads'[t]
            IN /\ (to.pc \in LoopPcs /\ to.pc # fr.pc) => fr.pc \in StageBefore(to.pc)
               /\ (fr.pc = "finalize" /\ to.pc = "meta") =>
                     /\ to.clips = fr.clips
                     /\ Len(to.files) = Len(fr.files) + 1
                     /\ Last(to.files).n = Head(fr.clips)
               /\ (fr.pc = "meta" /\ to.pc \in {"cut", "cleanup"}) =>
                     /\ to.clips = Tail(fr.clips)
                     /\ to.files = fr.files
                     /\ Len(fr.files) > 0
                     /\ Last(fr.files).n = Head(fr.clips)
               /\ (fr.pc \in LoopPcs \ {"finalize", "meta"} /\ to.pc \in LoopPcs) =>
                     /\ to.clips = fr.clips
                     /\ to.files = fr.files]_vars

C12_ClipFinalized ==
    \E t \in DOMAIN threads :
       /\ threads[t].pc = "meta"
       /\ Len(threads[t].files) = 1
       /\ \E f \in clipsDir : f.kind = "clip" /\ f.by = t
       /\ \E f \in clipsDir : f.kind = "mixed" /\ f.by = t
       /\ \E f \in outputDir : f.n = Last(threads[t].files).n /\ f.by = t

\* C13: select_best_clips never yields zero clips: every call returns between
\* 1 and NUM_CLIPS boundaries, so no run leaves the selection with an exception
\* of select_best_clips and every run that enters the clip loop holds 1..NUM_CLIPS
\* boundaries.
C13_SelectionNeverEmpty ==
    \A t \in DOMAIN threads :
       /\ threads[t].exc # "unhashable type: 'slice'"
       /\ threads[t].pc = "cut" => Len(threads[t].clips) \in 1..NUM_CLIPS

\* C14: the exception that leaves process_video is the one the handler of
\* _run_job stores: the frame keeps the first exception, the handler sets status
\* failed and then error to its text, a stored error text never changes, a
\* record is failed only through the handler, and while a run has not raised
\* (whatever music, caption or metadata failures it recovered from) its record
\* is not failed.
C14_FirstFatalError ==
    /\ [](\A i \in 1..Len(jobs) :
            /\ jobs[i].error # "None" => jobs[i].status = "failed"
            /\ (jobs[i].status = "failed" /\ jobs[i].error = "None") =>
                  /\ jobs[i].id \in DOMAIN threads
                  /\ threads[jobs[i].id].pc = "f_error")
    /\ [](\A t \in DOMAIN threads :
            /\ threads[t].exc # "None" <=> threads[t].pc \in {"f_status", "f_error"}
            /\ (threads[t].pc = "f_error" /\ t \in Ids(jobs)) =>
                  Get(jobs, t).status = "failed"
            /\ (threads[t].pc \notin {"f_status", "f_error"} /\ t \in Ids(jobs)) =>
                  Get(jobs, t).status # "failed")
    /\ [][/\ \A t \in DOMAIN threads :
               /\ (threads[t].exc # "None" /\ t \in DOMAIN threads') =>
                     threads'[t].exc = threads[t].exc
               /\ (threads[t].pc = "f_error" /\ t \notin DOMAIN threads'
                     /\ t \in Ids(jobs)) =>
                     /\ Get(jobs', t).status = "failed"
                     /\ Get(jobs', t).error = threads[t].exc
          /\ \A i \in 1..Len(jobs) :
               (jobs[i].error # "None" /\ jobs[i].id \in Ids(jobs')) =>
                  Get(jobs', jobs[i].id).error = jobs[i].error]_vars

C14_FailedWithText ==
    /\ threads = <<>>
    /\ Len(jobs) = 1
    /\ jobs[1].status = "failed"
    /\ jobs[1].error = "copy failed"
    /\ jobs[1].progress = Percent(InitialSteps + 1)

C16_NoStageBeforeFailure ==
    groq_client = "None" =>
        /\ downloads = {}
        /\ \A t \in DOMAIN threads :
              threads[t].pc \notin {"music", "extract", "transcribe", "select"}

\* ---------------------------------------------------------------- C17
\* the word timings are ordered and do not overlap, and every word lasts
OrderedWords(word_timings) ==
    /\ \A i \in 1..Len(word_timings) :
          word_timings[i].start_ms < word_timings[i].end_ms
    /\ \A i \in 1..(Len(word_timings) - 1) :
          word_timings[i].end_ms <= word_timings[i + 1].start_ms

\* the milliseconds an ASS timestamp denotes
ass_time_to_ms(t) ==
    ((t.hours * 60 + t.minutes) * 60 + t.seconds) * 1000 + t.centiseconds * 10

\* C17: the cues built from per-word timings never overlap: for an input that
\* is ordered and non-overlapping, each cue's end (after the minimum display
\* time and the delay) is no later than the next cue's start.
C17_CuesNeverOverlap ==
    (call.fn = "generate_ass_subtitles" /\ OrderedWords(call.args)) =>
        \A k \in 1..Len(call.rets) :
            \A i \in 1..(Len(call.rets[k]) - 1) :
                call.rets[k][i].end_ms <= call.rets[k][i + 1].start_ms

\* ---------------------------------------------------------------- C18
\* C18: every cue built from per-word timings has end - start >= 150 ms, its
\* start is its word's start plus the delay and its end is never earlier than
\* its word's end plus the delay; there is one cue per word that is not
\* blank, and the times written on its Dialogue line are these two rounded
\* down to the centisecond, still at least 150 ms apart.
C18_ClampExtendsEndOnly ==
    call.fn = "generate_ass_subtitles" =>
        \A k \in 1..Len(call.rets) :
            /\ Len(call.rets[k]) = Len(Shown(call.args))
            /\ \A i \in 1..Len(call.rets[k]) :
                 LET cue  == call.rets[k][i]
                     word == Shown(call.args)[i]
                 IN  /\ cue.end_ms - cue.start_ms >= 150
                     /\ cue.start_ms = word.start_ms + voiceover_delay_ms
                     /\ cue.end_ms >= word.end_ms + voiceover_delay_ms
                     /\ ass_time_to_ms(cue.start_time)
                            = cue.start_ms - (cue.start_ms % 10)
                     /\ ass_time_to_ms(cue.end_time)
                            = cue.end_ms - (cue.end_ms % 10)
                     /\ ass_time_to_ms(cue.end_time)
                            - ass_time_to_ms(cue.start_time) >= 150

\* a file was written with one cue whose end was moved forward and one cue
\* that kept its word's end
C18_ClampedAndUnclamped ==
    /\ call.fn = "generate_ass_subtitles"
    /\ Len(call.rets) > 0
    /\ Len(call.rets[1]) = 2
    /\ \E i, j \in 1..2 :
         /\ call.rets[1][i].end_ms > Shown(call.args)[i].end_ms + voiceover_delay_ms
         /\ call.rets[1][j].end_ms = Shown(call.args)[j].end_ms + voiceover_delay_ms

\* ---------------------------------------------------------------- C19
\* C19: for a text with at least one word the estimator returns one timing
\* per word, the first starting at 0; start_ms is strictly increasing, every
\* duration is at least 150 ms, each next start is the previous end plus
\* 50 ms, and every call on the same text returns the same timings.
C19_EstimatorTimings ==
    (call.fn = "_estimate_word_timings"
        /\ \E c \in 1..Len(call.args) : call.args[c] # " ") =>
        \A k \in 1..Len(call.rets) :
            LET timings == call.rets[k]
            IN  /\ Len(timings) >= 1
                /\ Len(timings) = Len(split(call.args))
                /\ timings[1].start_ms = 0
                /\ \A i \in 1..Len(timings) :
                     /\ timings[i].word = split(call.args)[i]
                     /\ timings[i].end_ms - timings[i].start_ms >= 150
                /\ \A i \in 1..(Len(timings) - 1) :
                     /\ timings[i + 1].start_ms = timings[i].end_ms + 50
                     /\ timings[i + 1].start_ms > timings[i].start_ms
                /\ timings = call.rets[1]

\* the estimator ran twice on a text of a short word and a longer one
C19_TwoWordsTwice ==
    /\ call.fn = "_estimate_word_timings"
    /\ Len(call.rets) = 2
    /\ Len(call.rets[2]) = 2
    /\ \E i, j \in 1..2 :
         /\ call.rets[2][i].end_ms - call.rets[2][i].start_ms = 150
         /\ call.rets[2][j].end_ms - call.rets[2][j].start_ms > 150

\* ---------------------------------------------------------------- C20
\* the synthesis of this call gave no word timings or failed
NoSynthesisTimings(args) ==
    IF args.first = "RuntimeError" THEN args.retry # "timings"
    ELSE args.first # "timings"

\* C20: when speech synthesis yields no word timings or fails,
\* generate_voiceover_audio returns, with the estimator's timings for the
\* text, for every way the synthesis can fail, the retry in a thread after an
\* event loop conflict included.
C20_VoiceoverNeverFails ==
    (call.fn = "generate_voiceover_audio" /\ NoSynthesisTimings(call.args)) =>
        \A k \in 1..Len(call.rets) :
            /\ call.rets[k].raised = "None"
            /\ call.rets[k].word_timings = estimate_word_timings(call.args.text)

\* ---------------------------------------------------------------- C21
\* C21: timestamp parsing fails soft: for every input text, fields that are
\* not numbers, empty fields and a wrong number of fields included,
\* timestamp_to_seconds returns (0 on a malformed text) and never raises.
C21_ParseFailsSoft ==
    call.fn = "timestamp_to_seconds" =>
        \A k \in 1..Len(call.rets) :
            /\ call.rets[k].raised = "None"
            /\ (\/ Len(split_on(call.args, ":")) \notin {2, 3}
                \/ \E i \in 1..Len(split_on(call.args, ":")) :
                       ~IsInt(split_on(call.args, ":")[i]))
                 => call.rets[k].value = 0

\* ---------------------------------------------------------------- C22
\* C22: for every MM:SS or HH:MM:SS text x, parsing x, formatting the seconds
\* as MM:SS and parsing that text gives the value of parsing x once; and
\* formatting a whole number of seconds and parsing the text returns the number.
C22_RoundTrip ==
    /\ (call.fn = "timestamp_to_seconds" /\ IsTimecode(call.args)) =>
         \A k \in 1..Len(call.rets) :
             /\ call.rets[k].raised = "None"
             /\ timestamp_to_seconds(format_mmss(call.rets[k].value)) = call.rets[k]
    /\ call.fn = "format_mmss" =>
         \A k \in 1..Len(call.rets) :
             call.rets[k].parsed = [raised |-> "None", value |-> call.args]

\* an HH:MM:SS text of an hour or more was parsed
C22_ParsedHours ==
    /\ call.fn = "timestamp_to_seconds"
    /\ IsTimecode(call.args)
    /\ Len(split_on(call.args, ":")) = 3
    /\ Len(call.rets) = 1
    /\ call.rets[1].value >= 3600

\* ---------------------------------------------------------------- C25
\* C25: with no boundary service available, a 600 s source and NUM_CLIPS = 1,
\* the single fallback clip lies around the mid-point of the source (300 s),
\* has the configured maximum length (60 s) and ends before the source does.
C25_FallbackAtMidPoint ==
    (call.fn = "select_best_clips" /\ call.args.reply = "unavailable"
        /\ call.args.source_seconds = 600) =>
        \A k \in 1..Len(call.rets) :
            /\ Len(call.rets[k].clips) = 1
            /\ call.rets[k].start[1] <= 300
            /\ call.rets[k].end[1] >= 300
            /\ call.rets[k].end[1] - call.rets[k].start[1] = CLIP_MAX_SECONDS
            /\ call.rets[k].end[1] < 600

\* ---------------------------------------------------------------- C23
\* C23: the cut stage always obtains a defined fade-out anchor (at least 0,
\* and 0 for a clip shorter than the 0.5 s fade): no run ends in cut_clip
\* because the anchor has no value.
C23_AnchorDefined ==
    \A t \in DOMAIN threads : threads[t].exc # "name 'fade_out' is not defined"

\* ---------------------------------------------------------------- C24
\* a status query was answered: the response changed to that of a poll
PollStep == resp' # resp /\ resp'.op = "poll"

\* C24: a status query by job id has no side effects: it changes no record,
\* adds or removes none, and starts no work, whatever the job's state.
C24_PollReadOnly ==
    [][PollStep => UNCHANGED <<jobs, nextId, threads, downloads, clipsDir,
                               outputDir, cleanups, evicted>>]_vars

\* a poll was answered with the record of a job whose run is in progress
C24_PolledWhileRunning ==
    /\ resp = Response("poll", 200, "")
    /\ ActiveRuns # {}
    /\ Processing # {}

\* ---------------------------------------------------------------- C26
\* every field a terminal status goes with has been written
Settled(rec) ==
    /\ rec.status = "completed" => (rec.progress = 100 /\ rec.clips # <<>>)
    /\ rec.status = "failed" => rec.error # "None"

\* C26: a poll never observes a half-written terminal record: at every poll
\* answered with a record, a record that reads completed has progress 100
\* and its clip descriptors, and a record that reads failed has its error text.
C26_PollSeesSettledRecord ==
    [][(PollStep /\ resp'.code = 200) => \A i \in 1..Len(jobs) : Settled(jobs[i])]_vars

\* ---------------------------------------------------------------- C27
\* C27: every stage execution writes to its own output path: the Strategy 1
\* attempt and the Strategy 2 retry of one add_subtitles call are never given
\* the same file to write.
C27_FreshPathPerExecution ==
    call.fn = "add_subtitles" =>
        \A k \in 1..Len(call.rets) :
            \A i, j \in 1..Len(call.rets[k].writes) :
                i # j => call.rets[k].writes[i].path # call.rets[k].writes[j].path

\* ---------------------------------------------------------------- C28
\* C28: for every clip that is finalized, the path recorded in the run's
\* result names a file of the output directory, whichever
\* caption tier produced it: final_clip_<n> from Strategy 1 or 2, clip_<n>
\* from the pass-through or the exception path, n being the clip's number;
\* the file is there while the run goes on and after the staging directory
\* was emptied.
C28_ResultInOutputDir ==
    \A t \in DOMAIN threads :
        /\ \A i \in 1..Len(threads[t].files) :
             /\ threads[t].files[i].kind \in {"final_clip", "clip"}
             /\ \E g \in outputDir :
                  /\ g.kind = threads[t].files[i].kind
                  /\ g.n = threads[t].files[i].n
        /\ threads[t].pc = "meta" =>
             /\ Last(threads[t].files).n = Head(threads[t].clips)
             /\ Last(threads[t].files).kind =
                  IF Last(threads[t].tried) \in {"tier1 ok", "tier2 ok"}
                  THEN "final_clip" ELSE "clip"

\* the staging directory was emptied at the end of a run whose clip passed
\* through without captions
C28_PassThroughAfterCleanup ==
    \E t \in DOMAIN threads :
        /\ threads[t].pc = "c_status"
        /\ clipsDir = {}
        /\ Len(threads[t].files) = 1
        /\ threads[t].files[1].kind = "clip"

\* ---------------------------------------------------------------- C29
\* process_video has returned in this frame
Returned(fr) == fr.pc \in {"c_status", "c_progress", "c_step", "c_clips"}

\* C29: the total step count is fixed before the first step, and in every
\* successful run the number of progress steps performed equals it, so the
\* last percentage the pipeline reports is exactly 100; while the run goes on
\* the count stays below the total.
C29_StepsEqualTotal ==
    \A t \in DOMAIN threads :
        /\ threads[t].current_step <= total_steps
        /\ (threads[t].pc = "cleanup" \/ Returned(threads[t])) =>
             /\ threads[t].current_step = total_steps
             /\ Percent(threads[t].current_step) = 100
        /\ threads[t].pc = "cleanup" => Get(jobs, t).progress = 100
        /\ (Active(threads[t]) /\ threads[t].pc # "cleanup") =>
             threads[t].current_step < total_steps

\* process_video returned after its eight steps
C29_ReturnedAfterAllSteps ==
    \E t \in DOMAIN threads :
        /\ threads[t].pc = "c_status"
        /\ threads[t].current_step = 8
        /\ Get(jobs, t).progress = 100
        /\ Get(jobs, t).status = "processing"

\* ---------------------------------------------------------------- C30
\* C30: a failure to obtain background music never fails the job: whether the
\* fetch succeeded or failed the run goes on to the audio extraction with the
\* step counter advanced by exactly one and the record still processing, and
\* no record is failed with an error of the music fetch.
C30_MusicIsOptional ==
    /\ [](\A i \in 1..Len(jobs) :
             jobs[i].error \notin {"yt-dlp playlist fetch failed",
                                   "yt-dlp music download failed",
                                   "No tracks found in music playlist",
                                   "Downloaded music file not found"})
    /\ [][\A t \in DOMAIN threads :
             (threads[t].pc = "music" /\ threads'[t] # threads[t]) =>
                 /\ threads'[t].pc = "extract"
                 /\ threads'[t].exc = "None"
                 /\ threads'[t].current_step = threads[t].current_step + 1
                 /\ Get(jobs', t).status = "processing"
                 /\ Get(jobs', t).progress = Percent(threads'[t].current_step)]_vars

\* a run without a music track produced its clip and returned
C30_ClipWithoutMusic ==
    \E t \in DOMAIN threads :
        /\ threads[t].pc = "c_status"
        /\ ~threads[t].music
        /\ threads[t].files # <<>>

\* ---------------------------------------------------------------- C31
\* C31: a clip boundary with a degenerate duration (end <= start, or longer
\* than the configured maximum) is handled gracefully: cutting it raises no
\* exception out of the pipeline.
C31_DegenerateBoundaryHandled ==
    call.fn = "cut_clip" =>
        \A k \in 1..Len(call.rets) :
            (\/ call.rets[k].end <= call.rets[k].start
             \/ call.rets[k].end - call.rets[k].start > CLIP_MAX_SECONDS)
                => call.rets[k].raised = "None"

\* ---------------------------------------------------------------- C32
\* the whole seconds an SRT time HH:MM:SS,000 denotes
srt_time_to_seconds(t) ==
    digits_value(SubSeq(t, 1, 2)) * 3600 + digits_value(SubSeq(t, 4, 5)) * 60
        + digits_value(SubSeq(t, 7, 8))

\* the words of the first k cues, in order
RECURSIVE CueWords(_, _)
CueWords(cues, k) ==
    IF k = 0 THEN <<>> ELSE CueWords(cues, k - 1) \o split(cues[k].chunk)

\* C32: the Tier 2 cues partition the words of the plain text (in capitals),
\* in order, into consecutive chunks of 5 words, the last one possibly
\* shorter; cue i (from 0) spans exactly the seconds 4i to 4(i+1), so the cues
\* are ordered, evenly spaced and do not overlap, and every word is in
\* exactly one cue.
C32_SrtCuesPartitionWords ==
    call.fn = "srt_lines" =>
        \A r \in 1..Len(call.rets) :
            LET cues  == call.rets[r]
                words == [i \in 1..Len(call.args.words) |-> str_upper(call.args.words[i])]
            IN  /\ CueWords(cues, Len(cues)) = words
                /\ Len(cues) = (Len(words) + 4) \div 5
                /\ \A k \in 1..Len(cues) :
                     /\ cues[k].number = k
                     /\ Len(cues[k].start_t) = 12
                     /\ srt_time_to_seconds(cues[k].start_t) = 4 * (k - 1)
                     /\ srt_time_to_seconds(cues[k].end_t) = 4 * k
                     /\ SubSeq(cues[k].start_t, 9, 12) = <<",", "0", "0", "0">>
                     /\ SubSeq(cues[k].end_t, 9, 12) = <<",", "0", "0", "0">>
                     /\ Len(split(cues[k].chunk)) = (IF k < Len(cues) THEN 5
                                                     ELSE Len(words) - 5 * (k - 1))
                     /\ Len(split(cues[k].chunk)) >= 1
                /\ \A k \in 1..(Len(cues) - 1) :
                     srt_time_to_seconds(cues[k].end_t)
                         = srt_time_to_seconds(cues[k + 1].start_t)

\* a text of six words gave a cue of five words and a cue of one
C32_TwoCues ==
    /\ call.fn = "srt_lines"
    /\ Len(call.args.words) = 6
    /\ Len(call.rets) = 1
    /\ Len(call.rets[1]) = 2
    /\ Len(split(call.rets[1][1].chunk)) = 5
    /\ Len(split(call.rets[1][2].chunk)) = 1

\* ---------------------------------------------------------------- C33
\* the words of the transcript that lie in the clip, in source order
WordsInClip(args) ==
    SelectSeq(args.words,
              LAMBDA w : w.start >= args.start_sec * 1000
                         /\ w.end <= args.end_sec * 1000 + 500)

\* C33: extract_clip_words returns, in source order, exactly the words with
\* start >= clip start and end <= clip end + 0.5 s, re-based to the clip
\* start (to the millisecond the float conversion gives: the difference or one
\* less); every returned timing has 0 <= start_ms, and start_ms <= end_ms
\* whenever the source word has start <= end.
C33_ClipWordsRebased ==
    call.fn = "extract_clip_words" =>
        \A r \in 1..Len(call.rets) :
            /\ Len(call.rets[r]) = Len(WordsInClip(call.args))
            /\ \A i \in 1..Len(call.rets[r]) :
                 LET out == call.rets[r][i]
                     w   == WordsInClip(call.args)[i]
                     s   == w.start - call.args.start_sec * 1000
                     e   == w.end - call.args.start_sec * 1000
                 IN  /\ out.word = w.word
                     /\ out.start_ms \in {s, s - 1}
                     /\ out.end_ms \in {e, e - 1}
                     /\ out.start_ms >= 0
                     /\ w.start <= w.end => out.start_ms <= out.end_ms

\* a clip starting at second 1 kept one of two words, re-based, and the
\* conversion lost a millisecond
C33_KeptAndDropped ==
    /\ call.fn = "extract_clip_words"
    /\ call.args.start_sec = 1
    /\ call.args.lossy
    /\ Len(call.args.words) = 2
    /\ Len(call.rets) = 1
    /\ Len(call.rets[1]) = 1
    /\ call.rets[1][1].start_ms = 0
    /\ call.rets[1][1].end_ms = 499

\* ---------------------------------------------------------------- C34
\* C34: the music fade-out start of the mix is max(0, D - 5), hence >= 0, for
\* every duration D, where D is the probed clip duration or 60 s when the
\* probe fails; a failed probe never keeps the mix request from being issued.
C34_FadeStartClamped ==
    call.fn = "mix_voiceover" =>
        \A r \in 1..Len(call.rets) :
            LET D == call.rets[r].duration
            IN  /\ D = (IF call.args.probe.ok THEN call.args.probe.seconds ELSE 60)
                /\ call.rets[r].issued
                /\ call.args.music =>
                     /\ call.rets[r].fade_start >= 0
                     /\ call.rets[r].fade_start = (IF D >= 5 THEN D - 5 ELSE 0)
                /\ (~call.args.probe.ok /\ call.args.music) =>
                     call.rets[r].fade_start = 55

\* the probe failed, and the mix with music was issued with the fallback
C34_ProbeFailedMixIssued ==
    /\ call.fn = "mix_voiceover"
    /\ ~call.args.probe.ok
    /\ call.args.music
    /\ Len(call.rets) = 1
    /\ call.rets[1].issued
    /\ call.rets[1].fade_start = 55

\* ---------------------------------------------------------------- C35
\* C35: cleanup_temp_files is idempotent and never raises: run twice in a
\* row, or with a file already removed or one that cannot be removed, it
\* leaves the state one run leaves and reports no error.
C35_CleanupIdempotent ==
    call.fn = "cleanup_temp_files" =>
        \A r \in 1..Len(call.rets) :
            /\ call.rets[r].raised = "None"
            /\ call.rets[r].dir = call.rets[1].dir
            /\ call.rets[r].dir \subseteq call.args.stuck
            /\ call.rets[r].dir \cap call.args.gone = {}

\* cleanup ran twice over a directory with a file that was already gone,
\* one that could not be removed and one that could
C35_TwiceWithGoneAndStuck ==
    /\ call.fn = "cleanup_temp_files"
    /\ Len(call.rets) >= 2
    /\ call.args.listed \cap call.args.gone # {}
    /\ call.args.listed \cap (call.args.stuck \ call.args.gone) # {}
    /\ call.args.listed \ (call.args.stuck \cup call.args.gone) # {}
    /\ call.rets[1].swallowed >= 2
    /\ call.rets[2].dir # {}

\* ---------------------------------------------------------------- C36
\* the list on disk before event k of run_pipeline
DbBefore(k) == IF k = 1 THEN call.args.processed ELSE call.rets[k - 1].db

\* C36: run_pipeline marks a video processed only after its process_video
\* returned without error; a failure on one video leaves it unmarked, and
\* the later new videos of the batch are still processed.
C36_MarkedOnlyAfterSuccess ==
    call.fn = "run_pipeline" =>
        LET batch  == SelectSeq(call.args.latest,
                        LAMBDA v : v # "None"
                           /\ \A i \in 1..Len(call.args.processed) :
                                 call.args.processed[i] # v)
            events == call.rets
            tried  == {k \in 1..Len(events) : events[k].op = "process_video"}
        IN  /\ \A k \in 1..Len(events) :
                 events[k].op = "mark_processed" =>
                     /\ k > 1
                     /\ events[k - 1].op = "process_video"
                     /\ events[k - 1].video = events[k].video
                     /\ ~events[k - 1].raised
            /\ \A k \in 1..Len(events) :
                 IF events[k].op = "mark_processed" /\ ~events[k].raised
                 THEN events[k].db = Append(DbBefore(k), events[k].video)
                 ELSE events[k].db = DbBefore(k)
            /\ \A k \in tried :
                 events[k].video = batch[Cardinality({j \in tried : j <= k})]
            /\ (Cardinality(tried) < Len(batch)
                /\ (Len(events) > 0 => events[Len(events)].raised
                                       \/ events[Len(events)].op = "mark_processed"))
               => ENABLED RunProcessVideo

\* the first video of the batch failed and stayed unmarked, the second was
\* processed and marked
C36_FailedThenMarked ==
    /\ call.fn = "run_pipeline"
    /\ Len(call.rets) = 3
    /\ call.rets[1].op = "process_video" /\ call.rets[1].raised
    /\ call.rets[2].op = "process_video" /\ ~call.rets[2].raised
    /\ call.rets[3].op = "mark_processed" /\ ~call.rets[3].raised
    /\ call.rets[1].video # call.rets[2].video
    /\ \E i \in 1..Len(call.rets[3].db) : call.rets[3].db[i] = call.rets[2].video
    /\ \A i \in 1..Len(call.rets[3].db) : call.rets[3].db[i] # call.rets[1].video

====
